---- MODULE Spec2Model ----
(***************************************************************************)
(* Model of the resilient scoring client of src/src/analyzer.py            *)
(* (GeminiAnalyzer): construction, analyze, the retry / backoff /          *)
(* model-switch / provider-escalation loop and the response interpreter.   *)
(*                                                                         *)
(* Texts are sequences of tokens.  Chinese literals of the source are      *)
(* written as ASCII glosses:                                               *)
(*   "zhendang" = '震荡'   "chiyou" = '持有'   "di" = '低'   "zhong" = '中'  *)
(*   "kanduo" = '看多'  "kankong" = '看空'  "mairu" = '买入'  "maichu" = '卖出' *)
(***************************************************************************)
EXTENDS Integers, Sequences, FiniteSets, TLC

\* ------------------------------------------------------------------ bounds
\* largest configured gemini_max_retries explored
MaxRetriesBound == 3
\* number of analyze calls made on one client
MaxCalls == 2

\* --------------------------------------------------------------- constants
\* analyzer.py:736  delay = min(delay, 60)
MaxBackoff == 60
\* analyzer.py:910  str(e)[:100]
SummaryLimit == 100
\* analyzer.py:1242 / 1255  .get('score', 50)
DefaultScore == 50

Min(a, b) == IF a <= b THEN a ELSE b

\* Optional values: None is the empty set, a value v is {v}.
None == {}
Some(v) == {v}

\* ------------------------------------------------------------ configuration
\* get_config(): the values read by the client.  A key is "unset" (empty),
\* a "placeholder" (truthy but starts with 'your_' or is too short) or "valid".
KeyClasses == {"unset", "placeholder", "valid"}
UrlClasses == {"unset", "http"}
\* gemini_retry_delay and gemini_request_delay, chosen together: a short base
\* delay with no pre-call delay, and a base delay whose backoff reaches the cap
\* with a pre-call delay
Timings == {[retry |-> 5, request |-> 0], [retry |-> 40, request |-> 2]}

Configs ==
    {[gemini_key_valid |-> g,
      openai_api_key |-> k,
      openai_base_url |-> u,
      gemini_max_retries |-> n,
      gemini_retry_delay |-> t.retry,
      gemini_request_delay |-> t.request] :
        g \in BOOLEAN, k \in KeyClasses, u \in UrlClasses,
        n \in 0..MaxRetriesBound, t \in Timings}

\* ------------------------------------------------------------------- errors
\* An exception object: who raised it and its text, str(e).
NoError == [origin |-> "none", text |-> <<>>]
Err(o, t) == [origin |-> o, text |-> t]

\* a text of more than 100 characters that names no rate limit
InternalErrorText == <<"500", "internal">> \o [i \in 1..SummaryLimit |-> "x"]
\* texts of the exceptions a primary backend call can raise: a rate-limit
\* text, a text of another class, and the empty text of an exception raised
\* without a message (str(e) == '')
GeminiErrorTexts == {<<"429", "quota", "exceeded">>, InternalErrorText, <<>>}
\* texts of the exceptions a secondary backend call can raise (the empty
\* response below is its failure of the other, non-rate-limit class)
OpenAIErrorTexts == {<<"rate", "limited">>}

\* analyzer.py:749  raise ValueError("Gemini 返回空响应")
GeminiEmptyError == Err("gemini", <<"Gemini", "empty", "response">>)
\* analyzer.py:686  raise ValueError("OpenAI API 返回空响应")
OpenAIEmptyError == Err("openai", <<"OpenAI", "API", "empty", "response">>)
\* analyzer.py:700
OpenAIExhaustedError == Err("client", <<"OpenAI", "API", "failed", "max", "retries">>)
\* analyzer.py:792
AllFailedError == Err("client", <<"all", "AI", "API", "failed", "max", "retries">>)
\* self._model.generate_content on a None handle
NoModelError == Err("gemini", <<"NoneType", "has", "no", "attribute", "generate_content">>)

\* analyzer.py:756  '429' in s or 'quota' in s.lower() or 'rate' in s.lower()
IsRateLimit(text) ==
    \E i \in 1..Len(text) : text[i] \in {"429", "quota", "rate"}

\* analyzer.py:735-736
RECURSIVE Pow2(_)
Pow2(n) == IF n <= 0 THEN 1 ELSE 2 * Pow2(n - 1)

BackoffUncapped(base, k) == base * Pow2(k - 1)
Backoff(base, k) == Min(base * Pow2(k - 1), MaxBackoff)

Truncate(s, n) == SubSeq(s, 1, Min(Len(s), n))


\* ---------------------------------------------------------------- responses
\* A JSON value found under a key: absent, null, a non-numeric string or an int.
JAbsent == [t |-> "absent", v |-> 0]
JNull == [t |-> "null", v |-> 0]
JText == [t |-> "text", v |-> 0]
JInt(n) == [t |-> "int", v |-> n]
\* a float with integer part n and a non-zero fraction (n >= 0)
JFloat(n) == [t |-> "float", v |-> n]

\* A non-empty response text, described by what the interpreter finds in it:
\*   form  "nojson"  no '{' before a last '}'
\*         "badjson" braces found, json.loads fails after repair
\*         "json"    braces found, json.loads gives an object
\*   pos, neg        number of positive / negative keywords occurring in the text
\*   dims            "absent" | "null" | "object" : the 'dimensions' entry
\*   value, funding, news, trend : the 'score' of each dimension sub-record
\*   sentiment       the top-level 'sentiment_score'
Resp(form, pos, neg, dims, va, fu, ne, tr, se) ==
    [form |-> form, pos |-> pos, neg |-> neg, dims |-> dims,
     value |-> va, funding |-> fu, news |-> ne, trend |-> tr, sentiment |-> se]

Responses ==
    { Resp("nojson", 3, 0, "absent", JAbsent, JAbsent, JAbsent, JAbsent, JAbsent),
      Resp("json", 0, 0, "object", JInt(80), JInt(60), JInt(70), JInt(50), JInt(72)),
      Resp("json", 0, 0, "object", JInt(80), JAbsent, JInt(70), JInt(50), JAbsent),
      Resp("json", 1, 0, "null", JAbsent, JAbsent, JAbsent, JAbsent, JInt(60)),
      Resp("json", 0, 0, "object", JInt(120), JInt(60), JInt(-5), JInt(50), JInt(150)) }

\* ------------------------------------------------------------------ results
\* AnalysisResult (analyzer.py:90-150), the fields the claims read.  A field
\* the constructor call does not pass takes the dataclass default.
AnalysisResult(sentiment, trend, advice, confidence, va, fu, ne, tr, summary, key_points, raw, success, error_message) ==
    [sentiment_score |-> sentiment,
     trend_prediction |-> trend,
     operation_advice |-> advice,
     confidence_level |-> confidence,
     value_score |-> va,
     funding_score |-> fu,
     news_score |-> ne,
     trend_score |-> tr,
     analysis_summary |-> summary,
     key_points |-> key_points,
     raw_response |-> raw,
     success |-> success,
     error_message |-> error_message]

\* analyzer.py:107-110  value_score: int = 0 ...
DimensionDefault == 0

\* analyzer.py:836-847
NotConfiguredResult ==
    AnalysisResult(50, "zhendang", "chiyou", "di",
                   DimensionDefault, DimensionDefault, DimensionDefault, DimensionDefault,
                   <<"AI", "not", "enabled">>, <<>>, None, FALSE,
                   Some(<<"Gemini", "API", "Key", "not", "configured">>))

\* analyzer.py:901-914
FailureResult(e) ==
    AnalysisResult(50, "zhendang", "chiyou", "di",
                   DimensionDefault, DimensionDefault, DimensionDefault, DimensionDefault,
                   <<"analysis", "error:">> \o Truncate(e.text, SummaryLimit), <<>>,
                   None, FALSE, Some(e.text))

\* analyzer.py:1320-1365
ParseTextResponse(r) ==
    LET bullish == r.pos > r.neg + 1
        bearish == ~bullish /\ r.neg > r.pos + 1
    IN AnalysisResult(IF bullish THEN 65 ELSE IF bearish THEN 35 ELSE 50,
                      IF bullish THEN "kanduo" ELSE IF bearish THEN "kankong" ELSE "zhendang",
                      IF bullish THEN "mairu" ELSE IF bearish THEN "maichu" ELSE "chiyou",
                      "di",
                      DimensionDefault, DimensionDefault, DimensionDefault, DimensionDefault,
                      <<"raw", "text">>, <<"JSON", "parse", "failed">>,
                      Some(r), TRUE, None)

\* int(d.get('score', 50)): raises on null (TypeError) and on non-numeric text
\* (ValueError); an int is kept as it is, a float loses its fraction
IntRaises(j) == j.t \in {"null", "text"}
IntOfDefault(j) == DefaultScore
IntOf(j) == IF j.t = "absent" THEN DefaultScore ELSE j.v

\* analyzer.py:1213-1301.  Gives [raised, err, res]: the exception that leaves
\* _parse_response (only json.JSONDecodeError is caught there), or its result.
ParseResponse(r) ==
    IF r.form \in {"nojson", "badjson"}
    THEN [raised |-> FALSE, err |-> NoError, res |-> ParseTextResponse(r)]
    ELSE IF r.dims = "null"
    THEN [raised |-> TRUE,
          err |-> Err("parser", <<"NoneType", "has", "no", "attribute", "get">>),
          res |-> NotConfiguredResult]
    ELSE IF \E j \in {r.value, r.funding, r.news, r.trend, r.sentiment} : IntRaises(j)
    THEN [raised |-> TRUE,
          err |-> Err("parser", <<"invalid", "literal", "for", "int()">>),
          res |-> NotConfiguredResult]
    ELSE [raised |-> FALSE, err |-> NoError,
          res |-> AnalysisResult(IntOf(r.sentiment), "zhendang", "chiyou", "zhong",
                                 IF r.dims = "absent" THEN DefaultScore ELSE IntOf(r.value),
                                 IF r.dims = "absent" THEN DefaultScore ELSE IntOf(r.funding),
                                 IF r.dims = "absent" THEN DefaultScore ELSE IntOf(r.news),
                                 IF r.dims = "absent" THEN DefaultScore ELSE IntOf(r.trend),
                                 <<"analysis", "done">>, <<>>, None, TRUE, None)]


\* -------------------------------------------------------------------- state
VARIABLES
    cfg,                 \* get_config(): fixed for the life of the client
    model,               \* self._model: "none" or the model it was built for
    current_model_name,  \* self._current_model_name
    using_fallback,      \* self._using_fallback
    use_openai,          \* self._use_openai
    openai_client,       \* self._openai_client is not None
    pc,                  \* "new" | "idle" | "gemini" | "openai" | "parse"
    attempt,             \* loop index of _call_api_with_retry
    openai_attempt,      \* loop index of _call_openai_api
    last_error,          \* last_error of _call_api_with_retry
    tried_fallback,      \* tried_fallback of _call_api_with_retry
    escalated,           \* _call_openai_api was entered from analyzer.py:776/786
    response_text,       \* the text _call_api_with_retry returned
    result,              \* what the last analyze call returned (None while running)
    log,                 \* what the current analyze call has done so far
    ncalls               \* analyze calls started

\* The collaborators of the client that are called as plain functions (the
\* response interpreter, the fetch chains of data_provider/ and the market-rank
\* selectors) share one call frame:
VARIABLES
    tushare_api,         \* MoneyFlowFetcher._tushare_api is not None
    fn,                  \* the function called last, "none" before the first call
    arg,                 \* its arguments (None before the first call)
    at,                  \* "idle", or the step the running call is at
    attempt_number,      \* tenacity's attempt_number of the running selector call
    trace,               \* sleeps, provider invocations, divisions of the call
    payload,             \* what the provider invoked last returned (None if nothing)
    ret                  \* what the call returned (None while it runs)

dvars == <<tushare_api, fn, arg, at, attempt_number, trace, payload, ret>>

vars == <<cfg, model, current_model_name, using_fallback, use_openai, openai_client,
          pc, attempt, openai_attempt, last_error, tried_fallback, escalated,
          response_text, result, log, ncalls, dvars>>

client == <<model, current_model_name, using_fallback, use_openai, openai_client>>
locals == <<attempt, openai_attempt, last_error, tried_fallback, escalated>>

\* entries of log
Entry(ev, who, m, k, out, rate, text, ok) ==
    [ev |-> ev, who |-> who, model |-> m, k |-> k, out |-> out, rate |-> rate,
     text |-> text, ok |-> ok]
\* time.sleep(d)
Sleep(why, d) == Entry("sleep", why, "none", d, "none", FALSE, None, TRUE)
\* attempt k of provider who under model m, with the backend's outcome o
Call(who, m, k, o) ==
    Entry("call", who, m, k, o.kind, o.kind # "text" /\ IsRateLimit(o.e.text), o.text,
          o.kind = "text")
\* _switch_to_fallback_model() and whether it returned True
Switch(ok) == Entry("switch", "gemini", "fallback", 0, "none", FALSE, None, ok)
\* the lazy _init_openai_fallback() and whether it left a client
InitOpenAI(ok) == Entry("init_openai", "openai", "openai", 0, "none", FALSE, None, ok)

max_retries == cfg.gemini_max_retries
base_delay == cfg.gemini_retry_delay

\* analyzer.py:645-647
is_available == model # "none" \/ openai_client

\* analyzer.py:534-542  openai_key_valid
openai_key_valid == cfg.openai_api_key = "valid"

\* analyzer.py:780  config.openai_api_key and config.openai_base_url
LazyInitConfigured == cfg.openai_api_key # "unset" /\ cfg.openai_base_url # "unset"

\* analyzer.py:521-572  _init_openai_fallback; ctor_ok says whether importing
\* openai and constructing OpenAI(**client_kwargs) succeed.
InitOpenAIFallbackNoFlag(ctor_ok) ==
    IF openai_key_valid /\ ctor_ok
    THEN /\ openai_client' = TRUE
         /\ current_model_name' = "openai"
         /\ UNCHANGED use_openai
    ELSE UNCHANGED <<openai_client, current_model_name, use_openai>>
InitOpenAIFallback(ctor_ok) ==
    IF openai_key_valid /\ ctor_ok
    THEN /\ openai_client' = TRUE
         /\ current_model_name' = "openai"
         /\ use_openai' = TRUE
    ELSE UNCHANGED <<openai_client, current_model_name, use_openai>>

\* analyzer.py:574-618  _init_model; built is the model genai constructs:
\* "primary", "fallback" (the primary model's construction failed) or "none"
\* (import, configure or both constructions failed).  It never raises.
InitModel(built) ==
    /\ model' = built
    /\ current_model_name' = IF built = "none" THEN current_model_name ELSE built
    /\ using_fallback' = IF built = "none" THEN using_fallback ELSE (built = "fallback")

\* no function of the collaborators has been called yet
NoCall ==
    /\ fn = "none"
    /\ arg = None
    /\ at = "idle"
    /\ attempt_number = 0
    /\ trace = <<>>
    /\ payload = None
    /\ ret = None

Init ==
    /\ cfg \in Configs
    /\ model = "none"
    /\ current_model_name = "none"
    /\ using_fallback = FALSE
    /\ use_openai = FALSE
    /\ openai_client = FALSE
    /\ pc = "new"
    /\ attempt = 0
    /\ openai_attempt = 0
    /\ last_error = NoError
    /\ tried_fallback = FALSE
    /\ escalated = FALSE
    /\ response_text = None
    /\ result = None
    /\ log = <<>>
    /\ ncalls = 0
    /\ NoCall
    /\ tushare_api = FALSE

\* analyzer.py:485-519  GeminiAnalyzer.__init__
Construct(built, ctor_ok) ==
    /\ pc = "new"
    /\ IF cfg.gemini_key_valid
       THEN /\ InitModel(built)
            /\ UNCHANGED <<openai_client, use_openai>>
       ELSE /\ InitOpenAIFallback(ctor_ok)
            /\ UNCHANGED <<model, using_fallback>>
    /\ pc' = "idle"
    /\ UNCHANGED <<dvars, cfg, locals, response_text, result, log, ncalls>>

\* analyzer.py:849-914: an exception e leaves the try block of analyze
Fail(e) ==
    /\ result' = Some(FailureResult(e))
    /\ pc' = "idle"

\* analyzer.py:777-779 / 787-789  raise last_error or openai_error
SurfacedSecondary(le, oe) == oe
Surfaced(le, oe) == IF le # NoError THEN le ELSE oe

\* analyzer.py:720-722  if self._use_openai: return self._call_openai_api(...)
EntryLoopPrimary == "gemini"
EntryLoop == IF use_openai THEN "openai" ELSE "gemini"

\* analyzer.py:729  tried_fallback = getattr(self, '_using_fallback', False)
TriedFallbackFresh == FALSE
TriedFallbackAtEntry == using_fallback

\* analyzer.py:815-881  analyze up to the call of _call_api_with_retry, and the
\* entry of _call_api_with_retry (analyzer.py:720-729)
AnalyzeStart ==
    /\ pc = "idle"
    /\ ncalls < MaxCalls
    /\ ncalls' = ncalls + 1
    /\ log' = IF cfg.gemini_request_delay > 0
              THEN <<Sleep("request", cfg.gemini_request_delay)>>
              ELSE <<>>
    /\ response_text' = None
    /\ attempt' = 0
    /\ openai_attempt' = 0
    /\ last_error' = NoError
    /\ escalated' = FALSE
    /\ tried_fallback' = TriedFallbackAtEntry
    /\ IF ~is_available
       THEN /\ result' = Some(NotConfiguredResult)
            /\ pc' = "idle"
       ELSE /\ result' = None
            /\ pc' = EntryLoop
    /\ UNCHANGED <<dvars, cfg, client>>

\* ---------------------------------------------------------- backend outcomes
\* What one backend invocation does: returns text, returns an empty response,
\* or raises e.
Out(kind, text, e) == [kind |-> kind, text |-> text, e |-> e]

GeminiOutcomes ==
    {Out("text", Some(r), NoError) : r \in Responses}
    \cup {Out("empty", None, GeminiEmptyError)}
    \cup {Out("error", None, Err("gemini", t)) : t \in GeminiErrorTexts}

OpenAIOutcomes ==
    {Out("text", Some(r), NoError) : r \in Responses}
    \cup {Out("empty", None, OpenAIEmptyError)}
    \cup {Out("error", None, Err("openai", t)) : t \in OpenAIErrorTexts}

\* analyzer.py:746 / 683  if response and response.text: return response.text
ReturnsAnyResponse(o) == o.kind \in {"text", "empty"}
ReturnsText(o) == o.kind = "text"

\* analyzer.py:620-643  _switch_to_fallback_model; ctor_ok says whether
\* genai.GenerativeModel(fallback) is constructed.
SwitchToFallbackModel(ctor_ok) ==
    IF ctor_ok
    THEN /\ model' = "fallback"
         /\ current_model_name' = "fallback"
         /\ using_fallback' = TRUE
    ELSE UNCHANGED <<model, current_model_name, using_fallback>>

\* analyzer.py:756-762  the condition under which a failed attempt tries the switch
SwitchDueAgain(e) ==
    /\ IsRateLimit(e.text)
    /\ attempt >= max_retries \div 2
SwitchDueAnyClass(e) ==
    /\ attempt >= max_retries \div 2
    /\ ~tried_fallback
SwitchDue(e) ==
    /\ IsRateLimit(e.text)
    /\ attempt >= max_retries \div 2
    /\ ~tried_fallback

\* analyzer.py:731 / 664  for attempt in range(max_retries)
InRangeOffByOne(k) == k <= max_retries
InRange(k) == k < max_retries

\* the wait before attempt k of a retry loop (analyzer.py:734-738, 666-670)
WaitsByClass(why, k) ==
    IF k > 0
    THEN <<Sleep(why, IF IsRateLimit(last_error.text) THEN MaxBackoff
                      ELSE Backoff(base_delay, k))>>
    ELSE <<>>
WaitsSharedCounter(why, k) ==
    LET n == IF why = "openai_backoff" THEN attempt + k ELSE k
    IN IF n > 0 THEN <<Sleep(why, Backoff(base_delay, n))>> ELSE <<>>
Waits(why, k) == IF k > 0 THEN <<Sleep(why, Backoff(base_delay, k))>> ELSE <<>>

\* analyzer.py:731-770  one iteration of the primary loop; out is what the
\* backend does when invoked, ctor_ok whether the fallback model can be built
GeminiAttempt(out, ctor_ok) ==
    /\ pc = "gemini"
    /\ InRange(attempt)
    /\ LET o == IF model = "none" THEN Out("error", None, NoModelError) ELSE out
           called == log \o Waits("backoff", attempt)
                         \o <<Call("gemini", model, attempt, o)>>
       IN IF ReturnsText(o)
          THEN /\ response_text' = o.text
               /\ pc' = "parse"
               /\ log' = called
               /\ UNCHANGED <<client, attempt, last_error, tried_fallback>>
          ELSE /\ last_error' = o.e
               /\ IF SwitchDue(o.e)
                  THEN /\ SwitchToFallbackModel(ctor_ok)
                       /\ tried_fallback' = ctor_ok
                       /\ log' = Append(called, Switch(ctor_ok))
                  ELSE /\ log' = called
                       /\ UNCHANGED <<model, current_model_name, using_fallback,
                                      tried_fallback>>
               /\ attempt' = attempt + 1
               /\ UNCHANGED <<use_openai, openai_client, response_text, pc>>
    /\ UNCHANGED <<dvars, cfg, openai_attempt, escalated, result, ncalls>>

\* analyzer.py:772-792  after the primary loop: escalate to the secondary
\* provider, or raise
GeminiExhausted(ctor_ok) ==
    /\ pc = "gemini"
    /\ ~InRange(attempt)
    /\ IF openai_client
       THEN /\ pc' = "openai"
            /\ escalated' = TRUE
            /\ UNCHANGED <<openai_client, current_model_name, use_openai, result, log>>
       ELSE IF LazyInitConfigured
       THEN /\ InitOpenAIFallback(ctor_ok)
            /\ log' = Append(log, InitOpenAI(openai_key_valid /\ ctor_ok))
            /\ IF openai_key_valid /\ ctor_ok
               THEN pc' = "openai" /\ escalated' = TRUE /\ UNCHANGED result
               ELSE Fail(Surfaced(last_error, AllFailedError)) /\ UNCHANGED escalated
       ELSE /\ Fail(Surfaced(last_error, AllFailedError))
            /\ UNCHANGED <<openai_client, current_model_name, use_openai, escalated, log>>
    /\ UNCHANGED <<dvars, cfg, model, using_fallback, attempt, openai_attempt, last_error,
                   tried_fallback, response_text, ncalls>>

\* analyzer.py:664-698  one iteration of the secondary loop; on the last one
\* the exception leaves _call_openai_api
OpenAIAttempt(out) ==
    /\ pc = "openai"
    /\ InRange(openai_attempt)
    /\ log' = log \o Waits("openai_backoff", openai_attempt)
                  \o <<Call("openai", current_model_name, openai_attempt, out)>>
    /\ IF ReturnsText(out)
       THEN /\ response_text' = out.text
            /\ pc' = "parse"
            /\ UNCHANGED <<openai_attempt, result>>
       ELSE /\ openai_attempt' = openai_attempt + 1
            /\ IF openai_attempt = max_retries - 1
               THEN Fail(IF escalated THEN Surfaced(last_error, out.e) ELSE out.e)
               ELSE UNCHANGED <<result, pc>>
            /\ UNCHANGED response_text
    /\ UNCHANGED <<dvars, cfg, client, attempt, last_error, tried_fallback, escalated, ncalls>>

\* analyzer.py:700  the secondary loop made no iteration
OpenAIExhausted ==
    /\ pc = "openai"
    /\ ~InRange(openai_attempt)
    /\ Fail(IF escalated THEN Surfaced(last_error, OpenAIExhaustedError)
            ELSE OpenAIExhaustedError)
    /\ UNCHANGED <<dvars, cfg, client, locals, response_text, log, ncalls>>

\* analyzer.py:892-914  interpret the text; an exception of the interpreter is
\* caught by analyze
Parse ==
    /\ pc = "parse"
    /\ \E r \in response_text :
          LET p == ParseResponse(r)
          IN IF p.raised
             THEN Fail(p.err)
             ELSE /\ result' = Some([p.res EXCEPT !.raw_response = Some(r)])
                  /\ pc' = "idle"
    /\ UNCHANGED <<dvars, cfg, client, locals, response_text, log, ncalls>>

Next ==
    \/ \E built \in {"primary", "fallback", "none"}, ok \in BOOLEAN : Construct(built, ok)
    \/ AnalyzeStart
    \/ \E o \in GeminiOutcomes, ok \in BOOLEAN : GeminiAttempt(o, ok)
    \/ \E ok \in BOOLEAN : GeminiExhausted(ok)
    \/ \E o \in OpenAIOutcomes : OpenAIAttempt(o)
    \/ OpenAIExhausted
    \/ Parse

Spec == Init /\ [][Next]_vars


\* the steps of a running analyze call
Step ==
    \/ \E o \in GeminiOutcomes, ok \in BOOLEAN : GeminiAttempt(o, ok)
    \/ \E ok \in BOOLEAN : GeminiExhausted(ok)
    \/ \E o \in OpenAIOutcomes : OpenAIAttempt(o)
    \/ OpenAIExhausted
    \/ Parse

\* analyze is synchronous, blocking code: a call that has started keeps running
FairSpec == Spec /\ WF_vars(Step)

\* ================================================================== claims
IsCall(x, who) == x.ev = "call" /\ x.who = who
IsBackoff(x) == x.ev = "sleep" /\ x.who = "backoff"
GeminiCalls == SelectSeq(log, LAMBDA x : IsCall(x, "gemini"))
OpenAICalls == SelectSeq(log, LAMBDA x : IsCall(x, "openai"))
Switches == SelectSeq(log, LAMBDA x : x.ev = "switch" /\ x.ok)
Returned == pc = "idle" /\ ncalls > 0
Running == pc \in {"gemini", "openai", "parse"}
StartedPrimary == Len(GeminiCalls) > 0 /\ GeminiCalls[1].model = "primary"
AllGeminiFailed ==
    /\ Len(GeminiCalls) >= 1
    /\ ~InRange(attempt)
    /\ \A j \in 1..Len(GeminiCalls) : ~GeminiCalls[j].ok

\* C1: every analyze call returns a result, and a result with success=False
\* carries a non-empty error_message, whatever the backends and the interpreter do.
C1_FailureHasMessage ==
    Returned =>
        \E r \in result :
            ~r.success => \E m \in r.error_message : Len(m) > 0

\* C2: a result with success=False has the composite score and the four
\* dimension scores at 50, trend_prediction '震荡' and operation_advice '持有'.
C2_FailureDefaults ==
    \A r \in result :
        ~r.success =>
            /\ r.sentiment_score = 50
            /\ r.value_score = 50
            /\ r.funding_score = 50
            /\ r.news_score = 50
            /\ r.trend_score = 50
            /\ r.trend_prediction = "zhendang"
            /\ r.operation_advice = "chiyou"

\* C3: with no backend configured, analyze returns the not-configured result
\* having invoked no backend and slept no pre-call delay.
C3_ImmediateTerminal ==
    (Returned /\ ~is_available) =>
        /\ result = Some(NotConfiguredResult)
        /\ log = <<>>

\* C4: in the primary loop attempt 0 follows no backoff wait, attempt k >= 1
\* follows exactly one wait of min(base_delay * 2^(k-1), 60), the attempts are
\* numbered 0, 1, 2, ... and a returned text is the text of the last attempt.
C4_BackoffSchedule ==
    /\ \A i \in 1..Len(log) :
          IsCall(log[i], "gemini") =>
              LET k == log[i].k
              IN /\ k = Len(SelectSeq(SubSeq(log, 1, i - 1), LAMBDA x : IsCall(x, "gemini")))
                 /\ k = 0 => (i = 1 \/ ~IsBackoff(log[i - 1]))
                 /\ k >= 1 =>
                       /\ i >= 2
                       /\ IsBackoff(log[i - 1])
                       /\ log[i - 1].k = (IF cfg.gemini_retry_delay * 2 ^ (k - 1) <= 60
                                          THEN cfg.gemini_retry_delay * 2 ^ (k - 1)
                                          ELSE 60)
                       /\ i >= 3 => ~IsBackoff(log[i - 2])
                 /\ log[i].out = "text" =>
                       /\ i = Len(log)
                       /\ response_text = log[i].text
                       /\ response_text # None
    /\ \A i \in 1..Len(log) :
          IsBackoff(log[i]) => (i < Len(log) /\ IsCall(log[i + 1], "gemini"))

\* C4 witness: attempts 0 and 1 failed, attempt 2 returned text, after waits of
\* 40 and then 60 (the cap) seconds.
C4_Witness ==
    /\ pc = "parse"
    /\ cfg.gemini_retry_delay = 40
    /\ \E i \in 3..Len(log) :
          /\ IsCall(log[i], "gemini") /\ log[i].k = 2 /\ log[i].out = "text"
          /\ log[i - 1] = Sleep("backoff", 60)
          /\ \E j \in 1..(i - 2) : log[j] = Sleep("backoff", 40)

\* C5: a call invokes the primary provider at most max_retries times and the
\* secondary provider at most max_retries times, and every started call returns
\* a result.
C5_BoundedAndTerminates ==
    /\ [](Len(GeminiCalls) <= max_retries /\ Len(OpenAICalls) <= max_retries)
    /\ (Running ~> (pc = "idle" /\ result # None))

\* C5 witness: a call that used all 2 * max_retries invocations and gave up.
C5_Witness ==
    /\ Returned
    /\ max_retries = MaxRetriesBound
    /\ Len(GeminiCalls) = max_retries
    /\ Len(OpenAICalls) = max_retries
    /\ \E r \in result : ~r.success

\* C6: a backend attempt that returns non-empty text is the last thing the
\* retry chain does and its text is the value returned; an attempt that returns
\* an empty response returns nothing and is counted as a failed attempt.
C6_FirstTextEndsChain ==
    /\ \A i \in 1..Len(log) :
          log[i].ev = "call" =>
              /\ log[i].out = "text" =>
                    /\ i = Len(log)
                    /\ response_text = log[i].text
                    /\ response_text # None
                    /\ pc \in {"parse", "idle"}
              /\ log[i].out # "text" =>
                    /\ ~log[i].ok
                    /\ i = Len(log) => (response_text = None /\ pc # "parse")
    /\ response_text # None => (Len(log) > 0 /\ log[Len(log)].ev = "call")
    /\ attempt = Len(SelectSeq(GeminiCalls, LAMBDA x : x.out # "text"))

\* C6 witness: an empty response of the primary provider, later a text of the
\* secondary provider, which is the result's raw response.
C6_Witness ==
    /\ Returned
    /\ \E r \in result : r.success /\ r.raw_response = response_text
    /\ Len(log) >= 3
    /\ IsCall(log[Len(log)], "openai") /\ log[Len(log)].out = "text"
    /\ \E j \in 1..Len(log) : IsCall(log[j], "gemini") /\ log[j].out = "empty"

\* C7: a call substitutes the fallback model at most once.
C7_AtMostOneSwitch == Len(Switches) <= 1

\* C7 witness: after a successful substitution, a later rate-limit failure past
\* the midpoint, which would qualify for a substitution.
C7_Witness ==
    \E i, j \in 1..Len(log) :
        /\ i < j
        /\ log[i].ev = "switch" /\ log[i].ok
        /\ IsCall(log[j], "gemini") /\ log[j].rate
        /\ log[j].k >= max_retries \div 2

C9_EscalatesWhenKeyValid ==
    (/\ Returned
     /\ AllGeminiFailed
     /\ \E r \in result : ~r.success
     /\ \A i \in 1..Len(log) : log[i].ev = "init_openai" => log[i].ok)
        => IF openai_key_valid
           THEN /\ Len(OpenAICalls) >= 1
                /\ \A j \in 1..Len(OpenAICalls) : OpenAICalls[j].k = j - 1
           ELSE Len(OpenAICalls) = 0

\* C10: when the primary attempts all failed and the secondary attempt
\* sequence failed too, the error reported is the last primary error.
C10_PrimaryErrorSurfaced ==
    (/\ Returned
     /\ AllGeminiFailed
     /\ Len(OpenAICalls) >= 1
     /\ ~log[Len(log)].ok)
        => /\ result = Some(FailureResult(last_error))
           /\ last_error.origin = "gemini"
           /\ last_error.text \notin (OpenAIErrorTexts \cup {OpenAIEmptyError.text})
           /\ LET g == GeminiCalls[Len(GeminiCalls)]
              IN /\ g.rate = IsRateLimit(last_error.text)
                 /\ (g.out = "empty") = (last_error = GeminiEmptyError)

\* C10 witness: both providers exhausted, the secondary one on a rate-limit
\* error, the primary one on another error.
C10_Witness ==
    /\ Returned
    /\ AllGeminiFailed
    /\ Len(OpenAICalls) = max_retries
    /\ log[Len(log)].rate
    /\ IsCall(log[Len(log)], "openai")
    /\ last_error = Err("gemini", InternalErrorText)

\* ==================================================== the interpreter alone
\* The variables of the client while no client has been constructed.
NoClient ==
    /\ cfg = [gemini_key_valid |-> FALSE, openai_api_key |-> "unset",
              openai_base_url |-> "unset", gemini_max_retries |-> 0,
              gemini_retry_delay |-> 5, gemini_request_delay |-> 0]
    /\ model = "none"
    /\ current_model_name = "none"
    /\ using_fallback = FALSE
    /\ use_openai = FALSE
    /\ openai_client = FALSE
    /\ pc = "new"
    /\ attempt = 0
    /\ openai_attempt = 0
    /\ last_error = NoError
    /\ tried_fallback = FALSE
    /\ escalated = FALSE
    /\ response_text = None
    /\ result = None
    /\ log = <<>>
    /\ ncalls = 0

clientvars == <<cfg, client, locals, pc, response_text, result, log, ncalls>>

\* largest index at which the first '{' or the last '}' of a text is placed
MaxBrace == 2
\* largest number of positive (negative) keywords a text contains
MaxKeywords == 3

\* analyzer.py:1222-1225  json_start = find('{'), json_end = rfind('}') + 1;
\* find and rfind give -1 when the character does not occur
JsonLocatedAnyBraces(first_open, last_close) == first_open >= 0 /\ last_close >= 0
JsonLocated(first_open, last_close) == first_open >= 0 /\ last_close + 1 > first_open

\* analyzer.py:1225-1231, 1299: which branch a text takes
FormOf(first_open, last_close, decodes) ==
    IF ~JsonLocated(first_open, last_close) THEN "nojson"
    ELSE IF decodes THEN "json" ELSE "badjson"

\* where the first '{' and the last '}' of a text are (one character is not both)
BracePairs ==
    {b \in (-1..MaxBrace) \X (-1..MaxBrace) : b[1] = -1 \/ b[2] = -1 \/ b[1] # b[2]}

\* The texts given to _parse_response: brace positions, whether the repaired
\* slice between them decodes, the keywords present, and the decoded object.
ParserResponses ==
    Responses
    \cup { Resp("json", 0, 0, "object", JFloat(72), JInt(60), JInt(70), JInt(50), JFloat(69)),
           Resp("json", 0, 0, "object", JInt(80), JText, JInt(70), JInt(50), JInt(72)) }

ParserTexts ==
    {[first_open |-> b[1], last_close |-> b[2], decodes |-> d,
      resp |-> [p EXCEPT !.form = FormOf(b[1], b[2], d), !.pos = kp, !.neg = kn]] :
        b \in BracePairs, d \in BOOLEAN, p \in ParserResponses,
        kp \in 0..MaxKeywords, kn \in 0..MaxKeywords}

\* _parse_response is about to be called on a text
ParserInit ==
    /\ NoClient
    /\ tushare_api = FALSE
    /\ fn = "_parse_response"
    /\ arg \in {Some(t) : t \in ParserTexts}
    /\ at = "call"
    /\ attempt_number = 0
    /\ trace = <<>>
    /\ payload = None
    /\ ret = None

\* analyzer.py:1200-1301  _parse_response(response_text, code, name)
ParseCall ==
    /\ fn = "_parse_response"
    /\ at = "call"
    /\ at' = "idle"
    /\ \E t \in arg : ret' = Some(ParseResponse(t.resp))
    /\ UNCHANGED <<clientvars, tushare_api, fn, arg, attempt_number, trace, payload>>

ParserNext == ParseCall

ParserSpec == ParserInit /\ [][ParserNext]_vars

\* C11: a text in which no '{' precedes a last '}', or whose slice between the
\* braces does not decode after repair, is interpreted by the keyword
\* heuristic: _parse_response returns (it does not raise) a result with
\* success=True, confidence_level 'di' and the key_points text of the
\* degraded parse, and no error message.
C11_DecodeFailureFallsBack ==
    \A t \in arg : \A r \in ret :
        (/\ fn = "_parse_response"
         /\ \/ t.first_open = -1
            \/ t.last_close < t.first_open
            \/ ~t.decodes)
            => /\ ~r.raised
               /\ r.res.success
               /\ r.res.confidence_level = "di"
               /\ r.res.key_points = <<"JSON", "parse", "failed">>
               /\ r.res.error_message = None
               /\ r.res = ParseTextResponse(t.resp)

\* C11 witness: braces in order, the slice does not decode, bearish keywords
C11_Witness ==
    /\ fn = "_parse_response"
    /\ \E t \in arg : \E r \in ret :
          /\ t.first_open >= 0
          /\ t.last_close > t.first_open
          /\ ~t.decodes
          /\ t.resp.neg > t.resp.pos + 1
          /\ ~r.raised
          /\ r.res.confidence_level = "di"
          /\ r.res.sentiment_score = 35

\* ============================================================ fetch chains
\* data_provider/financial_fetcher.py and data_provider/moneyflow_fetcher.py
\*
\* A float is kept exact, as the fraction num/den with den > 0.
Rat(n, d) == [num |-> n, den |-> d]
Num(n) == Rat(n, 1)
RatAdd(a, b) == Rat(a.num * b.den + b.num * a.den, a.den * b.den)
RatSub(a, b) == Rat(a.num * b.den - b.num * a.den, a.den * b.den)
RatMul(a, b) == Rat(a.num * b.num, a.den * b.den)
\* a / b for b > 0
RatDiv(a, b) == Rat(a.num * b.den, a.den * b.num)
\* bool(x) of a float
Truthy(a) == a.num # 0
\* bool(x) of an Optional[float]
Present(o) == \E x \in o : Truthy(x)

\* A cell of the row a provider returns: the column is missing; it holds
\* None, '' or '--'; or it holds a number (written 'v%' or 'v' when the
\* provider gives text).
NoColumn == [t |-> "nocolumn", v |-> 0]
Blank == [t |-> "blank", v |-> 0]
Val(v) == [t |-> "num", v |-> v]

\* financial_fetcher.py:291-301  _safe_float: None for None, '', '--' and for
\* whatever float() rejects
SafeFloat(c) == IF c.t = "num" THEN Some(Num(c.v)) ELSE None
\* financial_fetcher.py:303-312  _parse_percent
ParsePercent(c) == IF c.t = "num" THEN Some(Num(c.v)) ELSE None

\* What the call has done: ev is "sleep" (_random_sleep before a source),
\* "invoke" (the provider method of a source was called, out is how the source
\* ended), "divide" (the division of a growth field, out the sign of its base)
\* or "log" (out the class of the failure message).
Ev(ev, src, out) == [ev |-> ev, src |-> src, out |-> out]
NoSleep(src) == Ev("log", src, "none")
RandomSleep(src) == Ev("sleep", src, "none")
Invoke(src, out) == Ev("invoke", src, out)
Divide(field, base) == Ev("divide", field, IF base.num > 0 THEN "positive" ELSE "nonpositive")
\* a function returned v (v is None for 'no data'), or raised
Returned0(v) == [raised |-> FALSE, value |-> v]

\* How a provider method can end: it raises, returns None, returns an empty
\* frame, returns something that is not a frame of the expected shape, or
\* returns rows.
Payload(kind, row) == [kind |-> kind, row |-> row]
NoRow == [none |-> TRUE]
Failures == {Payload(k, NoRow) : k \in {"raise", "none", "empty", "malformed"}}
\* How a source ended: as the provider method did, or, when that returned
\* rows, with a "record" or with rows that are "unusable"
Ended(p, produced) ==
    IF p.kind # "rows" THEN p.kind ELSE IF produced THEN "record" ELSE "unusable"

\* FinancialIndicators (financial_fetcher.py:26-56): the fields a fetch
\* assigns; roa, the 3-year growths, pe_ttm, pb, ps_ttm, debt_to_asset and
\* current_ratio are never assigned and stay None.
FinancialIndicatorsUntagged(source, roe, revenue_growth, profit_growth, gross, net) ==
    [data_source |-> "unknown", roe |-> roe, revenue_growth |-> revenue_growth,
     profit_growth |-> profit_growth, gross_profit_margin |-> gross,
     net_profit_margin |-> net]
FinancialIndicators(source, roe, revenue_growth, profit_growth, gross, net) ==
    [data_source |-> source, roe |-> roe, revenue_growth |-> revenue_growth,
     profit_growth |-> profit_growth, gross_profit_margin |-> gross,
     net_profit_margin |-> net]

\* ---------------------------------------------- get_financial_indicators
\* Rows of the summary method: the five columns it reads.
SummaryCells == {NoColumn, Blank, Val(15)}
SummaryRows ==
    {[roe |-> a, revenue |-> b, profit |-> c, gross |-> d, net |-> e] :
        a \in SummaryCells, b \in SummaryCells, c \in SummaryCells,
        d \in {NoColumn, Val(30)}, e \in {Blank, Val(12)}}

\* Rows of the analysis-indicator method: for each indicator the cells of its
\* candidate columns, in the order the code tries them.
CandidateCells ==
    {<<NoColumn, NoColumn, NoColumn>>, <<Blank, Val(15), NoColumn>>,
     <<NoColumn, Val(15), Val(20)>>, <<Val(0), NoColumn, NoColumn>>}
IndicatorRows ==
    {[roe |-> a, revenue |-> b, profit |-> c] :
        a \in CandidateCells, b \in CandidateCells, c \in CandidateCells}

\* Rows of the income-statement method: for each candidate column the cells
\* <<current period, previous period>>.
PeriodPairs ==
    {<<NoColumn, NoColumn>>, <<Val(120), Val(100)>>, <<Val(120), Val(0)>>,
     <<Val(120), Val(-100)>>, <<Val(0), Val(100)>>, <<Val(120), Blank>>,
     <<Val(120), NoColumn>>}
ProfitPairs == {<<NoColumn, NoColumn>>, <<Val(90), Val(60)>>, <<Val(90), Val(-60)>>}
IncomeRows ==
    {[revenue |-> <<a, b>>, profit |-> <<c, d>>] :
        a \in PeriodPairs, b \in PeriodPairs, c \in ProfitPairs, d \in ProfitPairs}

Rows(S) == {Payload("rows", r) : r \in S}

\* financial_fetcher.py:206-209  for key in keys: if key in latest: ...; break
FirstPresent(cells) ==
    IF \A i \in 1..Len(cells) : cells[i] = NoColumn
    THEN None
    ELSE SafeFloat(cells[CHOOSE i \in 1..Len(cells) :
                            /\ cells[i] # NoColumn
                            /\ \A j \in 1..(i - 1) : cells[j] = NoColumn])

\* financial_fetcher.py:256  previous_revenue > 0
AnyBase(p) == TRUE
PositiveBase(p) == p.num > 0

\* financial_fetcher.py:253-256: the growth of a candidate column is computed
Computable(pair) ==
    /\ pair[1] # NoColumn
    /\ pair[2] # NoColumn
    /\ Present(SafeFloat(pair[1]))
    /\ \E p \in SafeFloat(pair[2]) : Truthy(p) /\ PositiveBase(p)

\* financial_fetcher.py:252-258: the first candidate column whose growth is
\* computed (the loop breaks there), 0 if there is none
GrowthKey(pairs) ==
    IF \E i \in 1..Len(pairs) : Computable(pairs[i])
    THEN CHOOSE i \in 1..Len(pairs) :
            Computable(pairs[i]) /\ \A j \in 1..(i - 1) : ~Computable(pairs[j])
    ELSE 0

\* financial_fetcher.py:257  ((current - previous) / previous) * 100
GrowthRate(current, previous) ==
    RatMul(RatDiv(RatSub(current, previous), previous), Num(100))

Growth(pairs) ==
    LET k == GrowthKey(pairs)
    IN IF k = 0 THEN None ELSE Some(GrowthRate(Num(pairs[k][1].v), Num(pairs[k][2].v)))

\* the division the growth loop of a field performs
Divisions(field, pairs) ==
    LET k == GrowthKey(pairs)
    IN IF k = 0 THEN <<>> ELSE <<Divide(field, Num(pairs[k][2].v))>>

\* financial_fetcher.py:129-135  entry of _get_indicators_from_eastmoney;
\* import_ok: importing akshare and pandas succeeds (else the outer handler
\* returns None and get_financial_indicators goes on to the secondary source)
EastmoneyEnter(import_ok) ==
    /\ fn = "get_financial_indicators"
    /\ at = "start"
    /\ IF import_ok
       THEN at' = "summary" /\ trace' = <<RandomSleep("ths_abstract")>>
       ELSE at' = "sina" /\ trace' = <<>>
    /\ UNCHANGED <<clientvars, tushare_api, fn, arg, attempt_number, payload, ret>>

\* financial_fetcher.py:138-184  method 1, the financial summary
Summary(p) ==
    /\ fn = "get_financial_indicators"
    /\ at = "summary"
    /\ payload' = Some(p)
    /\ trace' = Append(trace, Invoke("ths_abstract", Ended(p, TRUE)))
    /\ IF p.kind = "rows"
       THEN /\ ret' = Some(Returned0(Some(
                   FinancialIndicators("ths_abstract", ParsePercent(p.row.roe),
                                       ParsePercent(p.row.revenue),
                                       ParsePercent(p.row.profit),
                                       ParsePercent(p.row.gross),
                                       ParsePercent(p.row.net)))))
            /\ at' = "idle"
       ELSE /\ at' = "indicator"
            /\ UNCHANGED ret
    /\ UNCHANGED <<clientvars, tushare_api, fn, arg, attempt_number>>

\* financial_fetcher.py:186-229  method 2, the analysis indicators
AnalysisIndicator(p) ==
    /\ fn = "get_financial_indicators"
    /\ at = "indicator"
    /\ payload' = Some(p)
    /\ LET roe == IF p.kind = "rows" THEN FirstPresent(p.row.roe) ELSE None
           revenue == IF p.kind = "rows" THEN FirstPresent(p.row.revenue) ELSE None
           profit == IF p.kind = "rows" THEN FirstPresent(p.row.profit) ELSE None
           usable == Present(roe) \/ Present(revenue) \/ Present(profit)
       IN /\ trace' = trace \o <<RandomSleep("eastmoney_indicator"),
                                 Invoke("eastmoney_indicator", Ended(p, usable))>>
          /\ IF usable
             THEN /\ ret' = Some(Returned0(Some(
                         FinancialIndicators("eastmoney_indicator", roe, revenue, profit,
                                             None, None))))
                  /\ at' = "idle"
             ELSE /\ at' = "income"
                  /\ UNCHANGED ret
    /\ UNCHANGED <<clientvars, tushare_api, fn, arg, attempt_number>>

\* financial_fetcher.py:231-279  method 3, growth from the income statement;
\* "empty" is a statement of fewer than two periods
IncomeStatement(p) ==
    /\ fn = "get_financial_indicators"
    /\ at = "income"
    /\ payload' = Some(p)
    /\ LET revenue == IF p.kind = "rows" THEN Growth(p.row.revenue) ELSE None
           profit == IF p.kind = "rows" THEN Growth(p.row.profit) ELSE None
           divs == IF p.kind = "rows"
                   THEN Divisions("revenue_growth", p.row.revenue)
                        \o Divisions("profit_growth", p.row.profit)
                   ELSE <<>>
           usable == Present(revenue) \/ Present(profit)
       IN /\ trace' = trace \o <<RandomSleep("sina_income"),
                                 Invoke("sina_income", Ended(p, usable))>> \o divs
          /\ IF usable
             THEN /\ ret' = Some(Returned0(Some(
                         FinancialIndicators("sina_income", None, revenue, profit,
                                             None, None))))
                  /\ at' = "idle"
             ELSE /\ at' = "sina"
                  /\ UNCHANGED ret
    /\ UNCHANGED <<clientvars, tushare_api, fn, arg, attempt_number>>

\* financial_fetcher.py:114-119, 285-289  the secondary source is a stub
Sina ==
    /\ fn = "get_financial_indicators"
    /\ at = "sina"
    /\ trace' = Append(trace, Invoke("sina", "none"))
    /\ ret' = Some(Returned0(None))
    /\ at' = "idle"
    /\ UNCHANGED <<clientvars, tushare_api, fn, arg, attempt_number, payload>>

\* ------------------------------------------------------------ get_moneyflow
\* moneyflow_fetcher.py:323  yuan -> wan (ten thousand yuan)
TenThousand == 10000

\* MoneyFlowData (moneyflow_fetcher.py:27-61): the net amounts, in wan.  The
\* eight buy_* / sell_* amounts are copied from the Tushare row as they are
\* and are left None by the AkShare method.
MoneyFlowData(source, amount, sm, md, lg, elg, main, rate) ==
    [data_source |-> source, net_mf_amount |-> amount, net_mf_sm |-> sm,
     net_mf_md |-> md, net_mf_lg |-> lg, net_mf_elg |-> elg,
     main_net_inflow |-> main, main_net_inflow_rate |-> rate]

\* latest.get(column): None when the column is missing or holds None
Get(c) == IF c.t = "num" THEN Some(Num(c.v)) ELSE None
\* latest.get(column, 0) or 0
GetOrZero(c) == IF c.t = "num" THEN Num(c.v) ELSE Num(0)

\* str(e) of the exceptions the Tushare client raises: "quanxian" = '权限'
\* (no permission), "jifen" = '积分' (not enough points)
TushareErrorTexts ==
    {<<"sorry", "no", "quanxian">>, <<"jifen", "below", "600">>, <<"read", "timed", "out">>}
TushareRaises == {Payload("raise", [text |-> t]) : t \in TushareErrorTexts}
Unusable == {Payload(k, NoRow) : k \in {"none", "empty", "malformed"}}

\* moneyflow_fetcher.py:276  '没有权限' in msg or '权限' in msg or '积分' in msg
IsPermissionError(text) ==
    \E i \in 1..Len(text) : text[i] \in {"quanxian", "jifen"}

\* moneyflow_fetcher.py:272-281: the handler logs and returns None; a row that
\* cannot be processed raises inside the try block as well
TushareHandlerLog(p) ==
    IF p.kind = "raise" /\ IsPermissionError(p.row.text)
    THEN <<Ev("log", "tushare_moneyflow", "permission")>>
    ELSE IF p.kind \in {"raise", "malformed"}
    THEN <<Ev("log", "tushare_moneyflow", "error")>>
    ELSE <<>>

\* rows of tushare.moneyflow, amounts in wan; amount is the turnover
TushareRows ==
    {[net_mf_lg |-> a, net_mf_elg |-> b, net_mf_amount |-> c, amount |-> d] :
        a \in {NoColumn, Val(300), Val(-500)}, b \in {Blank, Val(200)},
        c \in {NoColumn, Val(40)}, d \in {NoColumn, Val(0), Val(1000)}}

\* moneyflow_fetcher.py:237-267
TushareRecord(row) ==
    LET main == RatAdd(GetOrZero(row.net_mf_lg), GetOrZero(row.net_mf_elg))
        rate == IF row.amount.t = "num" /\ row.amount.v > 0
                THEN Some(RatMul(RatDiv(RatMul(main, Num(10)), Num(row.amount.v)),
                                 Num(100)))
                ELSE None
    IN MoneyFlowData("tushare_moneyflow", Get(row.net_mf_amount), None, None,
                     Get(row.net_mf_lg), Get(row.net_mf_elg), Some(main), rate)

\* moneyflow_fetcher.py:174-179, 229, 281: whatever made the Tushare method
\* return None, get_moneyflow goes on to AkShare
AfterTushareRetry(p) == IF p.kind = "raise" THEN "start" ELSE "akshare"
AfterTushare(p) == "akshare"

\* moneyflow_fetcher.py:174, 183-281  _get_moneyflow_from_tushare
MoneyflowTushare(p) ==
    /\ fn = "get_moneyflow"
    /\ at = "start"
    /\ IF ~tushare_api
       THEN /\ at' = "akshare"
            /\ UNCHANGED <<trace, payload, ret>>
       ELSE /\ payload' = Some(p)
            /\ trace' = trace \o <<RandomSleep("tushare_moneyflow"),
                                   Invoke("tushare_moneyflow", Ended(p, TRUE))>>
                               \o TushareHandlerLog(p)
            /\ IF p.kind = "rows"
               THEN /\ ret' = Some(Returned0(Some(TushareRecord(p.row))))
                    /\ at' = "idle"
               ELSE /\ at' = AfterTushare(p)
                    /\ UNCHANGED ret
    /\ UNCHANGED <<clientvars, tushare_api, fn, arg, attempt_number>>

\* rows of ak.stock_individual_fund_flow, amounts in yuan
AkshareRows ==
    {[main |-> a, elg |-> b, lg |-> c, md |-> d, sm |-> e, rate |-> f] :
        a \in {NoColumn, Val(50000), Val(-120000)}, b \in {Blank, Val(30000)},
        c \in {NoColumn, Val(20000)}, d \in {Val(-7000)}, e \in {Val(0), Val(-43000)},
        f \in {NoColumn, Val(3)}}

\* moneyflow_fetcher.py:323-328  x / 10000
Undivided(x) == x
ToWan(x) == RatDiv(x, Num(TenThousand))

\* moneyflow_fetcher.py:321-341
AkshareRecord(row) ==
    LET main_net_inflow_wan == ToWan(GetOrZero(row.main))
    IN MoneyFlowData("akshare_individual_flow", Some(main_net_inflow_wan),
                     Some(ToWan(GetOrZero(row.sm))), Some(ToWan(GetOrZero(row.md))),
                     Some(ToWan(GetOrZero(row.lg))), Some(ToWan(GetOrZero(row.elg))),
                     Some(main_net_inflow_wan), Get(row.rate))

\* moneyflow_fetcher.py:292, 306-308, 344-348: the try block of the AkShare
\* method encloses the call and the processing of its payload
AkshareOutcomeUnguarded(p) ==
    IF p.kind = "rows" THEN Returned0(Some(AkshareRecord(p.row)))
    ELSE [raised |-> p.kind \in {"raise", "malformed"}, value |-> None]
AkshareOutcome(p) ==
    IF p.kind = "rows" THEN Returned0(Some(AkshareRecord(p.row))) ELSE Returned0(None)

\* moneyflow_fetcher.py:176-181, 283-348  _get_moneyflow_from_akshare;
\* import_ok: importing akshare succeeds
MoneyflowAkshare(import_ok, p) ==
    /\ fn = "get_moneyflow"
    /\ at = "akshare"
    /\ at' = "idle"
    /\ IF ~import_ok
       THEN /\ trace' = Append(trace, Ev("log", "akshare_individual_flow", "error"))
            /\ ret' = Some(Returned0(None))
            /\ UNCHANGED payload
       ELSE /\ payload' = Some(p)
            /\ trace' = trace \o <<RandomSleep("akshare_individual_flow"),
                                   Invoke("akshare_individual_flow", Ended(p, TRUE))>>
            /\ ret' = Some(AkshareOutcome(p))
    /\ UNCHANGED <<clientvars, tushare_api, fn, arg, attempt_number>>

\* ------------------------------------------------------ get_north_moneyflow
\* largest days argument explored
MaxDays == 2
\* moneyflow_fetcher.py:413-420, 491-498: 10000 wan = 100 million yuan
TrendThreshold == 10000

RECURSIVE SumSeq(_)
SumSeq(s) == IF s = <<>> THEN Num(0) ELSE RatAdd(s[1], SumSeq(Tail(s)))

\* df.head(min(days, len(df)))
HeadRows(s, days) == SubSeq(s, 1, Min(days, Len(s)))

\* x > n for an integer n
Exceeds(x, n) == x.num > n * x.den

\* moneyflow_fetcher.py:413-420, 491-498
Trend(total) ==
    IF Exceeds(total, TrendThreshold) THEN "sustained_inflow"
    ELSE IF Exceeds(total, 0) THEN "mild_inflow"
    ELSE IF Exceeds(total, 0 - TrendThreshold) THEN "mild_outflow"
    ELSE "sustained_outflow"

\* moneyflow_fetcher.py:422-429, 500-507  the result dict
NorthResult(source, days, total, avg) ==
    [data_source |-> source, days |-> days, total_net_amount |-> total,
     avg_net_amount |-> avg, trend |-> Trend(total)]

\* frames of tushare.moneyflow_hsgt: the net_amount column (in wan), newest
\* first, or a frame without that column
NorthTushareRows ==
    {[has_net_amount |-> h, series |-> s] :
        h \in BOOLEAN, s \in {<<500>>, <<12000, -300>>, <<-15000, 200>>}}

\* moneyflow_fetcher.py:405-429
NorthTushareResult(row, days) ==
    LET recent == HeadRows(row.series, days)
        total == IF row.has_net_amount
                 THEN SumSeq([i \in 1..Len(recent) |-> Num(recent[i])])
                 ELSE Num(0)
        avg == IF row.has_net_amount THEN RatDiv(total, Num(Len(recent))) ELSE Num(0)
    IN NorthResult("tushare_hsgt", days, total, avg)

\* moneyflow_fetcher.py:437  '没有权限' in msg or '权限' in msg
IsNorthPermissionError(text) == \E i \in 1..Len(text) : text[i] = "quanxian"

\* moneyflow_fetcher.py:364, 373-442  _get_north_moneyflow_from_tushare
NorthTushare(p) ==
    /\ fn = "get_north_moneyflow"
    /\ at = "start"
    /\ IF ~tushare_api
       THEN /\ at' = "akshare"
            /\ UNCHANGED <<trace, payload, ret>>
       ELSE /\ payload' = Some(p)
            /\ trace' = <<RandomSleep("tushare_hsgt"),
                          Invoke("tushare_hsgt", Ended(p, TRUE))>>
                  \o (IF p.kind = "raise" /\ IsNorthPermissionError(p.row.text)
                      THEN <<Ev("log", "tushare_hsgt", "permission")>>
                      ELSE IF p.kind \in {"raise", "malformed"}
                      THEN <<Ev("log", "tushare_hsgt", "debug")>>
                      ELSE <<>>)
            /\ IF p.kind = "rows"
               THEN /\ \E a \in arg :
                          ret' = Some(Returned0(Some(NorthTushareResult(p.row, a.days))))
                    /\ at' = "idle"
               ELSE /\ at' = "akshare"
                    /\ UNCHANGED ret
    /\ UNCHANGED <<clientvars, tushare_api, fn, arg, attempt_number>>

\* frames of ak.stock_hsgt_individual_em: per day the change of the shares held
\* and the closing price, newest first
HoldingDay(change, close) == [share_change |-> change, close_price |-> close]
NorthAkshareRows ==
    {<<HoldingDay(Val(2000), Val(10))>>,
     <<HoldingDay(Val(-3000), Val(10)), HoldingDay(Blank, Val(10))>>,
     <<HoldingDay(Val(20000000), Val(10)), HoldingDay(Val(500), NoColumn)>>}

\* moneyflow_fetcher.py:479-484  value of one day's change, in yuan
ValueChange(d) == RatMul(GetOrZero(d.share_change), GetOrZero(d.close_price))

\* moneyflow_fetcher.py:470-507
NorthAkshareResult(rows, days) ==
    LET recent == HeadRows(rows, days)
        total_net_amount ==
            ToWan(SumSeq([i \in 1..Len(recent) |-> ValueChange(recent[i])]))
    IN NorthResult("akshare_hsgt", days, total_net_amount,
                   RatDiv(total_net_amount, Num(Len(recent))))

\* moneyflow_fetcher.py:366-371, 444-514  _get_north_moneyflow_from_akshare
NorthAkshare(import_ok, p) ==
    /\ fn = "get_north_moneyflow"
    /\ at = "akshare"
    /\ at' = "idle"
    /\ IF ~import_ok
       THEN /\ trace' = Append(trace, Ev("log", "akshare_hsgt", "debug"))
            /\ ret' = Some(Returned0(None))
            /\ UNCHANGED payload
       ELSE /\ payload' = Some(p)
            /\ trace' = trace \o <<RandomSleep("akshare_hsgt"),
                                   Invoke("akshare_hsgt", Ended(p, TRUE))>>
            /\ \E a \in arg :
                  ret' = IF p.kind = "rows"
                         THEN Some(Returned0(Some(NorthAkshareResult(p.row, a.days))))
                         ELSE Some(Returned0(None))
    /\ UNCHANGED <<clientvars, tushare_api, fn, arg, attempt_number>>

\* ------------------------------------------------------------ the fetchers
\* A fetcher has been constructed (_init_tushare left a client or not) and one
\* of its fetch functions is about to run.
FetchInit ==
    /\ NoClient
    /\ \/ /\ fn = "get_financial_indicators"
          /\ arg = None
          /\ tushare_api = FALSE
       \/ /\ fn = "get_moneyflow"
          /\ arg = None
          /\ tushare_api \in BOOLEAN
       \/ /\ fn = "get_north_moneyflow"
          /\ arg \in {Some([days |-> d]) : d \in 1..MaxDays}
          /\ tushare_api \in BOOLEAN
    /\ at = "start"
    /\ attempt_number = 0
    /\ trace = <<>>
    /\ payload = None
    /\ ret = None

FetchNext ==
    \/ \E ok \in BOOLEAN : EastmoneyEnter(ok)
    \/ \E p \in Failures \cup Rows(SummaryRows) : Summary(p)
    \/ \E p \in Failures \cup Rows(IndicatorRows) : AnalysisIndicator(p)
    \/ \E p \in Failures \cup Rows(IncomeRows) : IncomeStatement(p)
    \/ Sina
    \/ \E p \in TushareRaises \cup Unusable \cup Rows(TushareRows) : MoneyflowTushare(p)
    \/ \E ok \in BOOLEAN, p \in Failures \cup Rows(AkshareRows) : MoneyflowAkshare(ok, p)
    \/ \E p \in TushareRaises \cup Unusable \cup Rows(NorthTushareRows) : NorthTushare(p)
    \/ \E ok \in BOOLEAN, p \in Failures \cup Rows(NorthAkshareRows) : NorthAkshare(ok, p)

FetchSpec == FetchInit /\ [][FetchNext]_vars

\* ------------------------------------------------- claims on the fetchers
FetchFunctions == {"get_financial_indicators", "get_moneyflow", "get_north_moneyflow"}

\* financial_fetcher.py:112-117, 137-235; moneyflow_fetcher.py:174-179, 364-369:
\* the sources of each chain, in the order the code reaches them
Chain(f) ==
    IF f = "get_financial_indicators"
    THEN <<"ths_abstract", "eastmoney_indicator", "sina_income", "sina">>
    ELSE IF f = "get_moneyflow"
    THEN <<"tushare_moneyflow", "akshare_individual_flow">>
    ELSE <<"tushare_hsgt", "akshare_hsgt">>

Invokes == SelectSeq(trace, LAMBDA e : e.ev = "invoke")
InvokesOf(src) == SelectSeq(trace, LAMBDA e : e.ev = "invoke" /\ e.src = src)
Rank(src) == CHOOSE k \in 1..Len(Chain(fn)) : Chain(fn)[k] = src

\* C12: get_financial_indicators, get_moneyflow and get_north_moneyflow never
\* raise: however the provider methods end, each returns a record of one of
\* its sources or None, and None when no source produced a record.
C12_FetchersNeverRaise ==
    \A r \in ret :
        fn \in FetchFunctions
            => /\ ~r.raised
               /\ \A x \in r.value :
                     \E k \in 1..Len(Chain(fn)) : x.data_source = Chain(fn)[k]
               /\ (\A i \in 1..Len(Invokes) : Invokes[i].out # "record") => r.value = None

\* C12 witness: Tushare raises, AkShare returns a payload that cannot be
\* processed; get_moneyflow returns None
C12_Witness ==
    /\ fn = "get_moneyflow"
    /\ at = "idle"
    /\ Len(Invokes) = 2
    /\ Invokes[1] = Invoke("tushare_moneyflow", "raise")
    /\ Invokes[2] = Invoke("akshare_individual_flow", "malformed")
    /\ ret = Some(Returned0(None))

\* C13: the sources of a chain are invoked in its priority order, each at most
\* once, a later one only after every earlier one ended without a record; a
\* returned record carries the tag of the source invoked last and is built from
\* that source's payload alone.
C13_FirstSuccessWins ==
    fn \in FetchFunctions
        => /\ \A i \in 1..Len(Invokes) :
                 \E k \in 1..Len(Chain(fn)) : Invokes[i].src = Chain(fn)[k]
           /\ \A i, j \in 1..Len(Invokes) :
                 i < j => Rank(Invokes[i].src) < Rank(Invokes[j].src)
           /\ \A i \in 1..(Len(Invokes) - 1) : Invokes[i].out # "record"
           /\ (at # "idle") => (ret = None /\ \A i \in 1..Len(Invokes) : Invokes[i].out # "record")
           /\ \A r \in ret : \A x \in r.value : \E p \in payload :
                 LET last == Invokes[Len(Invokes)]
                 IN /\ last.out = "record"
                    /\ x.data_source = last.src
                    /\ p.kind = "rows"
                    /\ (last.src = "eastmoney_indicator")
                          => /\ x.gross_profit_margin = None
                             /\ x.net_profit_margin = None
                             /\ x.roe = FirstPresent(p.row.roe)
                    /\ (last.src = "sina_income")
                          => /\ x.roe = None
                             /\ x.gross_profit_margin = None
                             /\ x.revenue_growth = Growth(p.row.revenue)
                    /\ (last.src = "tushare_moneyflow") => x = TushareRecord(p.row)
                    /\ (last.src = "akshare_individual_flow") => x = AkshareRecord(p.row)
                    /\ (last.src = "tushare_hsgt")
                          => \E a \in arg : x = NorthTushareResult(p.row, a.days)
                    /\ (last.src = "akshare_hsgt")
                          => \E a \in arg : x = NorthAkshareResult(p.row, a.days)

\* C13 witness: provider 1 (Tushare) raises and provider 2 (AkShare) succeeds
C13_Witness ==
    /\ fn = "get_moneyflow"
    /\ at = "idle"
    /\ Invokes = <<Invoke("tushare_moneyflow", "raise"),
                   Invoke("akshare_individual_flow", "record")>>
    /\ \E r \in ret : \E x \in r.value : x.data_source = "akshare_individual_flow"

\* C14: get_financial_indicators never returns a record in which every
\* indicator field is absent.
C14_NoEmptyRecord ==
    \A r \in ret : \A x \in r.value :
        fn = "get_financial_indicators"
            => \/ x.roe # None
               \/ x.revenue_growth # None
               \/ x.profit_growth # None
               \/ x.gross_profit_margin # None
               \/ x.net_profit_margin # None

PermissionDenied ==
    \E i \in 1..Len(trace) : trace[i] = Ev("log", "tushare_moneyflow", "permission")

\* C15: when Tushare fails with an error whose text contains 'quanxian' or
\* 'jifen', get_moneyflow has invoked Tushare once, goes on to AkShare, and
\* returns AkShare's record if AkShare gives rows.
C15_PermissionErrorFallsThrough ==
    /\ \A p \in payload :
          (/\ fn = "get_moneyflow"
           /\ at = "akshare"
           /\ p.kind = "raise"
           /\ \E i \in 1..Len(p.row.text) : p.row.text[i] \in {"quanxian", "jifen"})
              => PermissionDenied
    /\ (fn = "get_moneyflow" /\ PermissionDenied)
          => /\ Len(InvokesOf("tushare_moneyflow")) = 1
             /\ at \in {"akshare", "idle"}
             /\ (at = "akshare") => ret = None
             /\ (at = "idle")
                   => /\ trace[Len(trace)].src = "akshare_individual_flow"
                      /\ \A p \in payload :
                            (Invokes[Len(Invokes)].out = "record")
                               => ret = Some(Returned0(Some(AkshareRecord(p.row))))

\* C15 witness: permission error from Tushare, then AkShare's record returned
C15_Witness ==
    /\ fn = "get_moneyflow"
    /\ PermissionDenied
    /\ at = "idle"
    /\ Invokes[Len(Invokes)] = Invoke("akshare_individual_flow", "record")
    /\ \E r \in ret : \E x \in r.value : x.data_source = "akshare_individual_flow"

\* C19: in the income-statement method a previous-period value that is absent
\* or <= 0 is never divided by, and a growth field none of whose candidate
\* columns has a positive previous-period value stays absent.
NonPositiveBase(pair) == pair[2].t # "num" \/ pair[2].v <= 0
DividesFor(field) == SelectSeq(trace, LAMBDA e : e.ev = "divide" /\ e.src = field)
C19_NoGrowthOnNonPositiveBase ==
    \A p \in payload :
        (/\ fn = "get_financial_indicators"
         /\ Len(InvokesOf("sina_income")) = 1
         /\ p.kind = "rows")
            => /\ \A i \in 1..Len(trace) :
                     trace[i].ev = "divide" => trace[i].out = "positive"
               /\ (\A k \in 1..2 : NonPositiveBase(p.row.revenue[k]))
                     => /\ DividesFor("revenue_growth") = <<>>
                        /\ \A r \in ret : \A x \in r.value : x.revenue_growth = None
               /\ (\A k \in 1..2 : NonPositiveBase(p.row.profit[k]))
                     => /\ DividesFor("profit_growth") = <<>>
                        /\ \A r \in ret : \A x \in r.value : x.profit_growth = None

\* C19 witness: the previous revenue is negative under one column and zero
\* under the other; the profit growth is computed, the revenue growth is absent
C19_Witness ==
    /\ fn = "get_financial_indicators"
    /\ at = "idle"
    /\ \E p \in payload :
          /\ p.kind = "rows"
          /\ Len(InvokesOf("sina_income")) = 1
          /\ p.row.revenue = <<<<Val(120), Val(-100)>>, <<Val(120), Val(0)>>>>
    /\ \E r \in ret : \E x \in r.value :
          /\ x.data_source = "sina_income"
          /\ x.revenue_growth = None
          /\ x.profit_growth = Some(Rat(3000, 60))

\* the stored amount is the native amount of the cell, divided by 10000
InWan(stored, cell) ==
    \E s \in stored :
        /\ s.den > 0
        /\ s.num * 10000 = (IF cell.t = "num" THEN cell.v ELSE 0) * s.den

\* C20: every amount of a MoneyFlowData built by the AkShare method is the
\* provider's amount in yuan divided by 10000, once; a record built by the
\* Tushare method holds the provider's amounts, which are in wan, as they are.
C20_AmountsInWan ==
    \A r \in ret : \A x \in r.value : \A p \in payload :
        /\ (fn = "get_moneyflow" /\ x.data_source = "akshare_individual_flow")
              => /\ InWan(x.net_mf_amount, p.row.main)
                 /\ InWan(x.main_net_inflow, p.row.main)
                 /\ InWan(x.net_mf_elg, p.row.elg)
                 /\ InWan(x.net_mf_lg, p.row.lg)
                 /\ InWan(x.net_mf_md, p.row.md)
                 /\ InWan(x.net_mf_sm, p.row.sm)
        /\ (fn = "get_moneyflow" /\ x.data_source = "tushare_moneyflow")
              => /\ x.net_mf_amount = Get(p.row.net_mf_amount)
                 /\ x.net_mf_lg = Get(p.row.net_mf_lg)
                 /\ x.net_mf_elg = Get(p.row.net_mf_elg)

\* C20 witness: AkShare reports -120000 yuan of main-force flow and 20000 yuan
\* of large-order flow; the record holds -12 and 2 (wan)
C20_Witness ==
    /\ fn = "get_moneyflow"
    /\ at = "idle"
    /\ \E r \in ret : \E x \in r.value : \E p \in payload :
          /\ x.data_source = "akshare_individual_flow"
          /\ p.row.main = Val(-120000)
          /\ p.row.lg = Val(20000)
          /\ x.main_net_inflow = Some(Rat(-120000, 10000))
          /\ x.net_mf_lg = Some(Rat(20000, 10000))

\* ==================================================== market-rank selectors
\* src/dynamic_stock_selector.py
\*
\* largest n asked for
MaxN == 2
\* longest snapshot (data['data']['diff']) the endpoint returns
MaxSnapshot == 3
\* dynamic_stock_selector.py:24  stop_after_attempt(3)
StopAfterAttempt == 3
\* dynamic_stock_selector.py:25  wait_exponential(multiplier=1, min=2, max=10)
WaitMin == 2
WaitMax == 10

Max(a, b) == IF a >= b THEN a ELSE b
\* tenacity's wait_exponential after attempt k: max(min, min(1 * 2^(k-1), max))
WaitExponential(k) == Max(WaitMin, Min(Pow2(k - 1), WaitMax))

SelectorFunctions == {"get_top_stocks_by_volume", "get_top_stocks_by_change"}

\* One entry of the snapshot: whether f12 (the code) is non-empty; f14 (the
\* name): None for a null, else its text; whether the number printed with the
\* entry (f6 for the volume ranking, f3 for the change ranking) is a number.
\* The codes of a snapshot are distinct: the code of its i-th entry is i.
StockNames == {None, Some(<<"ST", "A">>), Some(<<"B">>)}
Stocks ==
    [has_code : {TRUE}, name : StockNames, numeric : BOOLEAN]
    \cup {[has_code |-> FALSE, name |-> Some(<<"B">>), numeric |-> TRUE]}
Snapshots == UNION {[1..k -> Stocks] : k \in 1..MaxSnapshot}

\* How the request of one attempt ends: "network" (session.get raises a
\* connection error or a timeout), "http_error" (raise_for_status raises),
\* "bad_json" (response.json() raises), "rc_nonzero", "no_data" (data['data']
\* is null), "no_diff" (diff missing or empty), or a "snapshot".
Http(kind, stocks) == [kind |-> kind, stocks |-> stocks]
HttpOutcomes ==
    {Http(k, <<>>) : k \in {"network", "http_error", "bad_json", "rc_nonzero",
                            "no_data", "no_diff"}}
    \cup {Http("snapshot", s) : s \in Snapshots}

\* dynamic_stock_selector.py:205  exclude_st and name and 'ST' in name
ExcludedNever(exclude_st, name) == FALSE
Excluded(exclude_st, name) ==
    exclude_st /\ \E t \in name : \E i \in 1..Len(t) : t[i] = "ST"

\* dynamic_stock_selector.py:115-120, 210: the log line of an entry raises for
\* a null name (format spec '8s') and for a number that is none
LogRaises(s) == s.name = None \/ ~s.numeric

\* dynamic_stock_selector.py:106-120, 199-214: the loop over the snapshot from
\* entry i on, codes collected so far; capped: the loop breaks at n codes
RECURSIVE Scan(_, _, _, _, _, _)
Scan(stocks, i, codes, capped, n, exclude_st) ==
    IF i > Len(stocks) THEN [raised |-> FALSE, value |-> codes]
    ELSE IF Excluded(exclude_st, stocks[i].name) \/ ~stocks[i].has_code
    THEN Scan(stocks, i + 1, codes, capped, n, exclude_st)
    ELSE IF LogRaises(stocks[i]) THEN [raised |-> TRUE, value |-> <<>>]
    ELSE IF capped /\ Len(codes) + 1 >= n
    THEN [raised |-> FALSE, value |-> Append(codes, i)]
    ELSE Scan(stocks, i + 1, Append(codes, i), capped, n, exclude_st)

\* the exception the body of the function raises inside its try block:
\* "network" (a requests RequestException), "other", or "none"
BodyException(f, a, h) ==
    IF h.kind \in {"network", "http_error"} THEN "network"
    ELSE IF h.kind \in {"bad_json", "no_data"} THEN "other"
    ELSE IF /\ h.kind = "snapshot"
            /\ Scan(h.stocks, 1, <<>>, f = "get_top_stocks_by_change", a.n, a.exclude_st).raised
    THEN "other"
    ELSE "none"

\* dynamic_stock_selector.py:124-129, 218-223  except RequestException /
\* except Exception: both handlers return []
SwallowedNetworkOnly(exception) == exception = "network"
Swallowed(exception) == exception \in {"network", "other"}

\* dynamic_stock_selector.py:49-129, 146-223: one execution of the function
\* body; escaped is the exception that leaves it ("none" if it returns)
Body(f, a, h) ==
    LET e == BodyException(f, a, h)
    IN IF e # "none"
       THEN [escaped |-> IF Swallowed(e) THEN "none" ELSE e, value |-> <<>>]
       ELSE IF h.kind = "snapshot"
       THEN [escaped |-> "none",
             value |-> Scan(h.stocks, 1, <<>>, f = "get_top_stocks_by_change",
                            a.n, a.exclude_st).value]
       ELSE [escaped |-> "none", value |-> <<>>]

\* dynamic_stock_selector.py:23  retry_if_exception_type((RequestException,
\* ConnectionError))
RetryIf(exception) == exception = "network"

\* One of the two functions is about to be called.
SelectorInit ==
    /\ NoClient
    /\ tushare_api = FALSE
    /\ \/ /\ fn = "get_top_stocks_by_volume"
          /\ arg \in {Some([n |-> n, exclude_st |-> FALSE]) : n \in 1..MaxN}
       \/ /\ fn = "get_top_stocks_by_change"
          /\ arg \in {Some([n |-> n, exclude_st |-> x]) : n \in 1..MaxN, x \in BOOLEAN}
    /\ at = "attempt"
    /\ attempt_number = 0
    /\ trace = <<>>
    /\ payload = None
    /\ ret = None

\* dynamic_stock_selector.py:22-31, 132  one attempt of the tenacity wrapper:
\* it runs the body, and if an exception of the retried class leaves the body
\* before the last attempt it waits and tries again; otherwise the call ends
\* (reraise=True: with the exception, if one left the body)
SelectorAttempt(h) ==
    /\ fn \in SelectorFunctions
    /\ at = "attempt"
    /\ attempt_number' = attempt_number + 1
    /\ payload' = Some(h)
    /\ \E a \in arg :
          LET b == Body(fn, a, h)
          IN IF b.escaped # "none" /\ RetryIf(b.escaped) /\ attempt_number' < StopAfterAttempt
             THEN /\ trace' = trace \o <<Invoke("eastmoney", h.kind),
                                        Ev("wait", "tenacity", WaitExponential(attempt_number'))>>
                  /\ UNCHANGED <<at, ret>>
             ELSE /\ trace' = Append(trace, Invoke("eastmoney", h.kind))
                  /\ at' = "idle"
                  /\ ret' = Some([raised |-> b.escaped # "none", value |-> b.value])
    /\ UNCHANGED <<clientvars, tushare_api, fn, arg>>

SelectorNext == \E h \in HttpOutcomes : SelectorAttempt(h)

SelectorSpec == SelectorInit /\ [][SelectorNext]_vars

\* C16: when the request of a selector call fails with a network error, the
\* call does not return before 3 attempts have been made.
C16_RetriedOnNetworkFailure ==
    \A h \in payload :
        (fn \in SelectorFunctions /\ at = "idle" /\ h.kind = "network")
            => attempt_number = StopAfterAttempt

\* C17: the selectors never raise; a network failure, any other failure, a
\* non-zero return code and an empty snapshot give the empty list.
C17_SelectorsNeverRaise ==
    \A r \in ret : \A h \in payload : \A a \in arg :
        fn \in SelectorFunctions
            => /\ ~r.raised
               /\ (h.kind # "snapshot") => r.value = <<>>
               /\ (BodyException(fn, a, h) # "none") => r.value = <<>>

\* C17 witness: data['data'] is null, the body fails with an AttributeError
C17_Witness ==
    /\ fn = "get_top_stocks_by_volume"
    /\ at = "idle"
    /\ \E h \in payload : h.kind = "no_data"
    /\ ret = Some([raised |-> FALSE, value |-> <<>>])

\* C18: get_top_stocks_by_change with exclude_st=True returns at most n codes,
\* in snapshot order, none of an entry whose name contains 'ST'; when no log
\* line fails they are the first n entries with a code and without 'ST'.
Eligible(stocks) ==
    {i \in 1..Len(stocks) :
        stocks[i].has_code /\ \A t \in stocks[i].name : \A k \in 1..Len(t) : t[k] # "ST"}
MaxWords == 3

\* analyzer.py:1335  "shangzhang" = '上涨'  "tupo" = '突破'  "qiangshi" = '强势'
\* "lihao" = '利好'  "jiacang" = '加仓'
PositiveKeywords ==
    {"kanduo", "mairu", "shangzhang", "tupo", "qiangshi", "lihao", "jiacang", "bullish", "buy"}
\* analyzer.py:1336  "xiadie" = '下跌'  "diepo" = '跌破'  "ruoshi" = '弱势'
\* "likong" = '利空'  "jiancang" = '减仓'
NegativeKeywords ==
    {"kankong", "maichu", "xiadie", "diepo", "ruoshi", "likong", "jiancang", "bearish", "sell"}

\* the words a raw text is made of; "guanwang" = '观望' is no keyword
Words == {"mairu", "tupo", "BUY", "maichu", "Sell", "guanwang"}
RawTexts == UNION {[1..k -> Words] : k \in 0..MaxWords}

\* analyzer.py:1332  response_text.lower(), word by word
Lower(w) == IF w = "BUY" THEN "buy" ELSE IF w = "Sell" THEN "sell" ELSE w

\* analyzer.py:1338-1339  sum(1 for kw in keywords if kw in text_lower)
KeywordCount(keywords, text) ==
    Cardinality({kw \in keywords : \E i \in 1..Len(text) : Lower(text[i]) = kw})

\* what _parse_text_response reads of a raw text
TextResp(text) ==
    Resp("nojson", KeywordCount(PositiveKeywords, text), KeywordCount(NegativeKeywords, text),
         "absent", JAbsent, JAbsent, JAbsent, JAbsent, JAbsent)

\* analyzer.py:1320-1365  _parse_text_response(response_text, code, name)
ParseTextCall ==
    /\ fn = "_parse_text_response"
    /\ at = "call"
    /\ at' = "idle"
    /\ \E text \in arg : ret' = Some(ParseTextResponse(TextResp(text)))
    /\ UNCHANGED <<clientvars, tushare_api, fn, arg, attempt_number, trace, payload>>

\* ----------------------------------------------- _safe_float, _parse_percent
\* longest string given to the numeric parsers, in characters
MaxChars == 3

\* The values a provider's cell can hold: None, a string, a number, or an
\* object that is none of these (a non-empty list or dict).
VNone == [t |-> "none", s |-> <<>>, n |-> 0]
VStr(s) == [t |-> "str", s |-> s, n |-> 0]
VNum(n) == [t |-> "number", s |-> <<>>, n |-> n]
VObject == [t |-> "object", s |-> <<>>, n |-> 0]

Chars == {"1", "-", "%", ",", " ", "a"}
Strings == UNION {[1..k -> Chars] : k \in 0..MaxChars}
CellValues == {VNone, VObject} \cup {VStr(s) : s \in Strings} \cup {VNum(n) : n \in {0, 15}}

\* str.strip()
RECURSIVE LStrip(_)
LStrip(s) == IF s # <<>> /\ s[1] = " " THEN LStrip(Tail(s)) ELSE s
RECURSIVE RStrip(_)
RStrip(s) == IF s # <<>> /\ s[Len(s)] = " " THEN RStrip(SubSeq(s, 1, Len(s) - 1)) ELSE s
Strip(s) == RStrip(LStrip(s))

\* str.replace(ch, '')
RECURSIVE Remove(_, _)
Remove(s, ch) ==
    IF s = <<>> THEN <<>>
    ELSE IF s[1] = ch THEN Remove(Tail(s), ch)
    ELSE <<s[1]>> \o Remove(Tail(s), ch)

\* value.strip().replace('%', '').replace(',', '')
Clean(s) == Remove(Remove(Strip(s), "%"), ",")

IsDigits(s) == s # <<>> /\ \A i \in 1..Len(s) : s[i] = "1"
RECURSIVE Decimal(_)
Decimal(s) == IF s = <<>> THEN 0 ELSE 10 * Decimal(SubSeq(s, 1, Len(s) - 1)) + 1

\* What a try body does: it returns a value or raises an exception.
Gives(v) == [exc |-> "none", value |-> v]
Throws(exc) == [exc |-> exc, value |-> None]

\* float(x) of a string: surrounding blanks are ignored, then an optional sign
\* and digits are accepted; anything else is a ValueError
FloatOfStr(s) ==
    LET t == Strip(s)
    IN IF IsDigits(t) THEN Gives(Some(Num(Decimal(t))))
       ELSE IF t # <<>> /\ t[1] = "-" /\ IsDigits(Tail(t))
       THEN Gives(Some(Num(0 - Decimal(Tail(t)))))
       ELSE Throws("ValueError")

\* financial_fetcher.py:294-299  the try body of _safe_float
SafeFloatBody(v) ==
    IF v.t = "none" \/ v = VStr(<<>>) \/ v = VStr(<<"-", "-">>) THEN Gives(None)
    ELSE IF v.t = "str" THEN FloatOfStr(Clean(v.s))
    ELSE IF v.t = "number" THEN Gives(Some(Num(v.n)))
    ELSE Throws("TypeError")

\* financial_fetcher.py:306-310  the try body of _parse_percent: a falsy
\* value (None, '', 0) and '--' give None; str(value) of a number parses back
\* to the number, str(value) of an object is no number
ParsePercentBody(v) ==
    IF v.t = "none" \/ v = VStr(<<>>) \/ v = VNum(0) THEN Gives(None)
    ELSE IF v = VStr(<<"-", "-">>) THEN Gives(None)
    ELSE IF v.t = "str" THEN FloatOfStr(Clean(v.s))
    ELSE IF v.t = "number" THEN Gives(Some(Num(v.n)))
    ELSE Throws("ValueError")

\* financial_fetcher.py:300-301, 311-312  except: return None
CaughtValueErrorOnly(exc) == exc = "ValueError"
Caught(exc) == TRUE

Guarded(body) ==
    IF body.exc = "none" THEN [raised |-> FALSE, value |-> body.value]
    ELSE [raised |-> ~Caught(body.exc), value |-> None]

\* financial_fetcher.py:291-301  _safe_float(value)
SafeFloatCall ==
    /\ fn = "_safe_float"
    /\ at = "call"
    /\ at' = "idle"
    /\ \E v \in arg : ret' = Some(Guarded(SafeFloatBody(v)))
    /\ UNCHANGED <<clientvars, tushare_api, fn, arg, attempt_number, trace, payload>>

\* financial_fetcher.py:303-312  _parse_percent(value_str)
ParsePercentCall ==
    /\ fn = "_parse_percent"
    /\ at = "call"
    /\ at' = "idle"
    /\ \E v \in arg : ret' = Some(Guarded(ParsePercentBody(v)))
    /\ UNCHANGED <<clientvars, tushare_api, fn, arg, attempt_number, trace, payload>>

\* ------------------------------------- get_main_flow_summary, get_trend_label
\* a > b
RatGt(a, b) == a.num * b.den > b.num * a.den

\* main_net_inflow of the record the method is called on, in wan
MainNetInflows ==
    {None} \cup {Some(Num(v)) : v \in {-20000, -10000, -7500, -5000, -3000, -1, 0,
                                        1, 3000, 5000, 7500, 10000, 20000}}
           \cup {Some(ToWan(Num(v))) : v \in {50000, -120000}}

\* moneyflow_fetcher.py:79-94  get_main_flow_summary: "net_inflow" = '主力净流入',
\* "mild_inflow" = '主力小幅流入', "mild_outflow" = '主力小幅流出',
\* "net_outflow" = '主力净流出', "missing" = '数据缺失'
MainFlowSummary(main_net_inflow) ==
    IF main_net_inflow = None THEN "missing"
    ELSE LET inflow_yi == RatDiv(CHOOSE x \in main_net_inflow : TRUE, Num(TenThousand))
         IN IF RatGt(inflow_yi, Num(1)) THEN "net_inflow"
            ELSE IF RatGt(inflow_yi, Num(0)) THEN "mild_inflow"
            ELSE IF RatGt(inflow_yi, Num(-1)) THEN "mild_outflow"
            ELSE "net_outflow"

\* moneyflow_fetcher.py:96-110  get_trend_label: "sustained_inflow" = '持续流入',
\* "mild_inflow" = '小幅流入', "mild_outflow" = '小幅流出',
\* "sustained_outflow" = '持续流出', "unknown" = '未知'
TrendLabel(main_net_inflow) ==
    IF main_net_inflow = None THEN "unknown"
    ELSE LET inflow_yi == RatDiv(CHOOSE x \in main_net_inflow : TRUE, Num(TenThousand))
         IN IF RatGt(inflow_yi, Rat(1, 2)) THEN "sustained_inflow"
            ELSE IF RatGt(inflow_yi, Num(0)) THEN "mild_inflow"
            ELSE IF RatGt(inflow_yi, Rat(-1, 2)) THEN "mild_outflow"
            ELSE "sustained_outflow"

MainFlowSummaryCall ==
    /\ fn = "get_main_flow_summary"
    /\ at = "call"
    /\ at' = "idle"
    /\ \E m \in arg : ret' = Some(MainFlowSummary(m))
    /\ UNCHANGED <<clientvars, tushare_api, fn, arg, attempt_number, trace, payload>>

TrendLabelCall ==
    /\ fn = "get_trend_label"
    /\ at = "call"
    /\ at' = "idle"
    /\ \E m \in arg : ret' = Some(TrendLabel(m))
    /\ UNCHANGED <<clientvars, tushare_api, fn, arg, attempt_number, trace, payload>>

\* ------------------------------------------------------- the helpers' calls
\* One of the helpers is about to be called on an argument.
HelperInit ==
    /\ NoClient
    /\ tushare_api = FALSE
    /\ \/ /\ fn = "_parse_text_response"
          /\ arg \in {Some(t) : t \in RawTexts}
       \/ /\ fn \in {"_safe_float", "_parse_percent"}
          /\ arg \in {Some(v) : v \in CellValues}
       \/ /\ fn \in {"get_main_flow_summary", "get_trend_label"}
          /\ arg \in {Some(m) : m \in MainNetInflows}
    /\ at = "call"
    /\ attempt_number = 0
    /\ trace = <<>>
    /\ payload = None
    /\ ret = None

HelperNext ==
    \/ ParseTextCall
    \/ SafeFloatCall
    \/ ParsePercentCall
    \/ MainFlowSummaryCall
    \/ TrendLabelCall

HelperSpec == HelperInit /\ [][HelperNext]_vars

\* ------------------------------------------------- claims on the helpers
\* the number of occurrences of keywords in a text, case-insensitive
Occurrences(keywords, text) ==
    Cardinality({i \in 1..Len(text) : Lower(text[i]) \in keywords})

\* C21: with P and N the numbers of occurrences of positive and negative
\* keywords in the raw text, the text fallback gives score 65 and advice
\* 'mairu' when P > N + 1, score 35 and advice 'maichu' when N > P + 1, and
\* score 50 and advice 'chiyou' otherwise; the confidence is always 'di'.
C21_OccurrenceCounts ==
    \A text \in arg : \A r \in ret :
        fn = "_parse_text_response"
            => LET P == Occurrences(PositiveKeywords, text)
                   N == Occurrences(NegativeKeywords, text)
               IN /\ r.confidence_level = "di"
                  /\ (P > N + 1)
                        => r.sentiment_score = 65 /\ r.operation_advice = "mairu"
                  /\ (N > P + 1)
                        => r.sentiment_score = 35 /\ r.operation_advice = "maichu"
                  /\ (~(P > N + 1) /\ ~(N > P + 1))
                        => r.sentiment_score = 50 /\ r.operation_advice = "chiyou"

\* C24: _safe_float and _parse_percent never raise; they return None or a
\* float, None for '' and for '--', and the number written in a string once
\* blanks, '%' and ',' are taken out of it.
C24_NumericParsersNeverRaise ==
    \A v \in arg : \A r \in ret :
        fn \in {"_safe_float", "_parse_percent"}
            => /\ ~r.raised
               /\ \A x \in r.value : x.den = 1
               /\ (v = VStr(<<>>) \/ v = VStr(<<"-", "-">>)) => r.value = None
               /\ (v.t = "str" /\ \E i \in 1..Len(v.s) : v.s[i] = "a") => r.value = None
               /\ \A s \in {<<"1">>, <<"1", "%">>, <<"1", ",", "1">>, <<" ", "1", "%">>} :
                     v = VStr(s) => r.value = Some(Num(Decimal(Remove(Remove(Remove(s, " "), "%"), ","))))

\* C24 witness: _safe_float of a list; float() raises a TypeError, which the
\* bare except turns into None
C24_Witness ==
    /\ fn = "_safe_float"
    /\ arg = Some(VObject)
    /\ ret = Some([raised |-> FALSE, value |-> None])

\* C30: with x = main_net_inflow / 10000, get_main_flow_summary gives the
\* inflow label of its band for x > 1 and for 0 <= x <= 1 and the outflow
\* label for -1 <= x < 0 and for x < -1; get_trend_label has the same bands
\* with thresholds 1/2 and -1/2; an absent main_net_inflow gives the
\* missing / unknown label.
C30_LabelBands ==
    \A m \in arg : \A label \in ret :
        fn \in {"get_main_flow_summary", "get_trend_label"}
            => LET summary == fn = "get_main_flow_summary"
                   hi == IF summary THEN Num(1) ELSE Rat(1, 2)
                   lo == IF summary THEN Num(-1) ELSE Rat(-1, 2)
               IN /\ m = None => label = (IF summary THEN "missing" ELSE "unknown")
                  /\ \A w \in m :
                        LET x == RatDiv(w, Num(TenThousand))
                        IN label =
                              IF RatGt(x, hi)
                              THEN (IF summary THEN "net_inflow" ELSE "sustained_inflow")
                              ELSE IF ~RatGt(Num(0), x) THEN "mild_inflow"
                              ELSE IF ~RatGt(lo, x) THEN "mild_outflow"
                              ELSE (IF summary THEN "net_outflow" ELSE "sustained_outflow")

\* ------------------------------------------- claims on the extracted scores
\* a score as a well-formed response carries it: an integer, or no entry
WellFormedScore(j) == j.t \in {"int", "absent"}
Extracted(j) == IF j.t = "int" THEN j.v ELSE 50

\* C22: for a response that decodes to an object whose dimension scores and
\* sentiment_score are integers or absent, the four dimension scores of the
\* result are the scores of the four dimensions (50 where absent) and
\* sentiment_score is the response's own field (50 if absent).
C22_ScoresExtracted ==
    \A t \in arg : \A r \in ret :
        (/\ fn = "_parse_response"
         /\ t.resp.form = "json"
         /\ t.resp.dims = "object"
         /\ \A j \in {t.resp.value, t.resp.funding, t.resp.news, t.resp.trend, t.resp.sentiment} :
               WellFormedScore(j))
            => /\ ~r.raised
               /\ r.res.success
               /\ r.res.value_score = Extracted(t.resp.value)
               /\ r.res.funding_score = Extracted(t.resp.funding)
               /\ r.res.news_score = Extracted(t.resp.news)
               /\ r.res.trend_score = Extracted(t.resp.trend)
               /\ r.res.sentiment_score = Extracted(t.resp.sentiment)

\* C22 witness: a response without a funding score and without a composite:
\* both take the default 50, and the composite is not the weighted sum
\* 0.4 value + 0.25 funding + 0.25 news + 0.1 trend of the dimension scores
C22_Witness ==
    /\ fn = "_parse_response"
    /\ \E t \in arg : \E r \in ret :
          /\ t.resp.form = "json"
          /\ t.resp.value = JInt(80)
          /\ t.resp.funding = JAbsent
          /\ t.resp.sentiment = JAbsent
          /\ ~r.raised
          /\ r.res.value_score = 80
          /\ r.res.funding_score = 50
          /\ r.res.sentiment_score = 50
          /\ 20 * r.res.sentiment_score #
                8 * r.res.value_score + 5 * r.res.funding_score
                + 5 * r.res.news_score + 2 * r.res.trend_score

\* C23: every result analyze returns has its composite score and its four
\* dimension scores within 0..100.
C23_ScoresInRange ==
    \A r \in result :
        /\ r.sentiment_score \in 0..100
        /\ r.value_score \in 0..100
        /\ r.funding_score \in 0..100
        /\ r.news_score \in 0..100
        /\ r.trend_score \in 0..100

\* ------------------------------------------- claims on the wait policy
\* the waits and attempts of the call so far, without the class of a failure,
\* the model and the text of an attempt
Step3(ev, who, k) == [ev |-> ev, who |-> who, k |-> k]
Schedule ==
    LET s == SelectSeq(log, LAMBDA x : x.ev \in {"sleep", "call"})
    IN [i \in 1..Len(s) |-> Step3(s[i].ev, s[i].who, s[i].k)]
CappedDelay(k) ==
    IF cfg.gemini_retry_delay * 2 ^ (k - 1) <= 60
    THEN cfg.gemini_retry_delay * 2 ^ (k - 1) ELSE 60
\* the waits and attempts of a retry loop that has made n attempts
RECURSIVE LoopSchedule(_, _, _)
LoopSchedule(who, why, n) ==
    IF n = 0 THEN <<>>
    ELSE LoopSchedule(who, why, n - 1)
         \o (IF n - 1 > 0 THEN <<Step3("sleep", why, CappedDelay(n - 1))>> ELSE <<>>)
         \o <<Step3("call", who, n - 1)>>
FailedCalls(who) == SelectSeq(log, LAMBDA x : IsCall(x, who) /\ ~x.ok)

\* C25: the attempts made and the wait before each attempt are determined by
\* max_retries, base_delay and the indices of the failed attempts alone: with
\* n primary and m secondary attempts made, the schedule is the pre-call
\* delay, then attempts 0..n-1 with min(base_delay * 2^(k-1), 60) before
\* attempt k >= 1, then the same for the secondary loop, whatever the class
\* of each failure; and a loop goes on exactly until an attempt returns text
\* or max_retries attempts have failed.
C25_WaitPolicyIgnoresClass ==
    /\ ncalls > 0 =>
          Schedule =
             (IF cfg.gemini_request_delay > 0
              THEN <<Step3("sleep", "request", cfg.gemini_request_delay)>> ELSE <<>>)
             \o LoopSchedule("gemini", "backoff", Len(GeminiCalls))
             \o LoopSchedule("openai", "openai_backoff", Len(OpenAICalls))
    /\ attempt = Len(FailedCalls("gemini"))
    /\ openai_attempt = Len(FailedCalls("openai"))
    /\ Len(FailedCalls("gemini")) <= max_retries
    /\ Len(FailedCalls("openai")) <= max_retries
    /\ pc = "gemini" => Len(GeminiCalls) = Len(FailedCalls("gemini"))
    /\ pc = "openai" => Len(OpenAICalls) = Len(FailedCalls("openai"))
    /\ (Len(OpenAICalls) > 0 /\ ~use_openai) => Len(FailedCalls("gemini")) = max_retries

\* C25 witness: a rate-limit failure and a failure of another class, each
\* followed by the backoff wait and the next attempt
C25_Witness ==
    \E i, j \in 1..Len(log) :
        /\ i + 2 <= Len(log) /\ j + 1 < Len(log)
        /\ IsCall(log[i], "gemini") /\ log[i].rate /\ log[i + 1].ev = "switch"
        /\ IsBackoff(log[i + 2])
        /\ IsCall(log[j], "gemini") /\ ~log[j].ok /\ ~log[j].rate
        /\ IsBackoff(log[j + 1]) /\ IsCall(log[j + 2], "gemini")

\* C26: the secondary loop numbers its attempts from 0; its attempt 0 follows
\* no wait, however many primary attempts were made; its attempt k >= 1
\* follows one wait of min(base_delay * 2^(k-1), 60); it makes at most
\* max_retries attempts; and when its last attempt fails the call ends with
\* that attempt's error raised by the loop (a call that escalated reports the
\* last primary error in its place).
OpenAIErrorOf(x) ==
    IF x.out = "empty" THEN OpenAIEmptyError
    ELSE Err("openai", CHOOSE t \in OpenAIErrorTexts : IsRateLimit(t) = x.rate)
C26_SecondaryLoopOwnCounter ==
    /\ Len(OpenAICalls) <= max_retries
    /\ \A j \in 1..Len(OpenAICalls) : OpenAICalls[j].k = j - 1
    /\ \A i \in 1..Len(log) :
          IsCall(log[i], "openai") =>
              /\ log[i].k = 0 => (i = 1 \/ log[i - 1].ev # "sleep" \/ log[i - 1].who = "request")
              /\ log[i].k >= 1 =>
                    /\ log[i - 1] = Sleep("openai_backoff", CappedDelay(log[i].k))
                    /\ IsCall(log[i - 2], "openai")
    /\ \A i \in 1..Len(log) :
          (log[i].ev = "sleep" /\ log[i].who = "openai_backoff")
              => (i < Len(log) /\ IsCall(log[i + 1], "openai"))
    /\ (Len(log) > 0 /\ IsCall(log[Len(log)], "openai") /\ ~log[Len(log)].ok)
          => IF log[Len(log)].k = max_retries - 1
             THEN /\ Returned
                  /\ result = Some(FailureResult(
                        IF escalated THEN Surfaced(last_error, OpenAIErrorOf(log[Len(log)]))
                        ELSE OpenAIErrorOf(log[Len(log)])))
             ELSE pc = "openai"

\* C26 witness: after max_retries = 3 primary attempts the secondary loop ran
\* its attempts 0, 1, 2 and the call gave up
C26_Witness ==
    /\ Returned
    /\ escalated
    /\ max_retries = 3
    /\ Len(GeminiCalls) = 3
    /\ Len(OpenAICalls) = 3
    /\ \E i \in 3..Len(log) :
          /\ IsCall(log[i], "openai") /\ log[i].k = 0
          /\ log[i - 1].ev = "init_openai"
          /\ IsCall(log[i - 2], "gemini") /\ log[i - 2].k = 2
    /\ \E r \in result : ~r.success

\* C27: a substitution of the fallback model during a call is followed, in
\* that call, by a primary attempt made with the fallback model.
C27_RetriesUnderNewModel ==
    (pc # "gemini") =>
        \A i \in 1..Len(log) :
            (log[i].ev = "switch" /\ log[i].ok)
                => \E j \in (i + 1)..Len(log) :
                      IsCall(log[j], "gemini") /\ log[j].model = "fallback"

\* C28: in a result with success=False that reports an exception, the
\* message within analysis_summary and the error_message field are each at
\* most the first 100 characters of the exception text.
C28_MessageTruncated ==
    \A r \in result :
        (~r.success /\ r # NotConfiguredResult)
            => /\ Len(r.analysis_summary) <= 2 + SummaryLimit
               /\ \A m \in r.error_message : Len(m) <= SummaryLimit

\* C29: in every record get_moneyflow returns, main_net_inflow is the sum of
\* net_mf_lg and net_mf_elg of that record, an absent tier counting as 0.
\* the numerator of an optional amount over the denominator d (0 if absent)
Over(o, d) == IF o = None THEN 0 ELSE LET x == CHOOSE y \in o : TRUE IN (x.num * d) \div x.den
C29_MainIsLargePlusExtraLarge ==
    fn = "get_moneyflow" =>
        \A r \in ret : \A x \in r.value :
            \E m \in x.main_net_inflow :
                m.num = Over(x.net_mf_lg, m.den) + Over(x.net_mf_elg, m.den)

\* ------------------------------------------- claims on the pre-call sleep
\* the sources whose method calls a data provider (the Sina fallback of the
\* financial chain is a stub that calls none)
OutboundSources ==
    {"ths_abstract", "eastmoney_indicator", "sina_income", "tushare_moneyflow",
     "akshare_individual_flow", "tushare_hsgt", "akshare_hsgt"}

\* C31: in the fetch chains every call of a data provider is immediately
\* preceded by one random sleep taken for it, every random sleep is followed
\* by the provider call it was taken for, and no sleep is taken and no call
\* made for Tushare when its client is not initialised.
C31_SleepBeforeEveryCall ==
    fn \in FetchFunctions =>
        /\ \A i \in 1..Len(trace) :
              (trace[i].ev = "invoke" /\ trace[i].src \in OutboundSources)
                  => /\ i > 1
                     /\ trace[i - 1] = Ev("sleep", trace[i].src, "none")
        /\ \A i \in 1..Len(trace) :
              trace[i].ev = "sleep" =>
                  IF i < Len(trace)
                  THEN trace[i + 1].ev = "invoke" /\ trace[i + 1].src = trace[i].src
                  ELSE at = "summary"
        /\ ~tushare_api =>
              \A i \in 1..Len(trace) : trace[i].src \notin {"tushare_moneyflow", "tushare_hsgt"}

\* C31 witness: get_moneyflow without a Tushare client: one sleep, then the
\* AkShare call, and nothing for Tushare
C31_Witness ==
    /\ fn = "get_moneyflow"
    /\ ~tushare_api
    /\ at = "idle"
    /\ Len(trace) = 2
    /\ trace[1] = Ev("sleep", "akshare_individual_flow", "none")
    /\ trace[2].ev = "invoke" /\ trace[2].src = "akshare_individual_flow"

\* C33: a record of the income-statement method has, for each growth field
\* with a candidate column whose current and previous values are both numbers
\* and whose previous value is > 0, that field set to
\* (current - previous) / previous * 100 of such a column.
BothAvailable(pair) == pair[1].t = "num" /\ pair[2].t = "num" /\ pair[2].v > 0
IsGrowthOf(growth, pairs) ==
    \E g \in growth : \E i \in 1..Len(pairs) :
        /\ BothAvailable(pairs[i])
        /\ g.num * pairs[i][2].v = (pairs[i][1].v - pairs[i][2].v) * 100 * g.den
C33_GrowthWheneverBasePositive ==
    fn = "get_financial_indicators" =>
        \A r \in ret : \A x \in r.value : \A p \in payload :
            x.data_source = "sina_income" =>
                /\ (\E i \in 1..2 : BothAvailable(p.row.revenue[i]))
                      => IsGrowthOf(x.revenue_growth, p.row.revenue)
                /\ (\E i \in 1..2 : BothAvailable(p.row.profit[i]))
                      => IsGrowthOf(x.profit_growth, p.row.profit)

\* ============================================================ batch_analyze
\* batch_analyze(contexts, delay_between) on a client that has made no call:
\* arg holds contexts, payload the list results, trace the waits of the batch
\* and the calls and returns of analyze, at the position in the loop ("loop":
\* at the head of an iteration, "call": in self.analyze(context), "done").
\* A context is the map the collaborators build; the batch reads its code.
Codes == {"600519", "000001"}
Contexts == {[code |-> c] : c \in Codes}
ContextLists == UNION {[1..n -> Contexts] : n \in 0..MaxCalls}

\* the configurations of the client the batch is run with
BatchConfigs == {c \in Configs : c.gemini_max_retries <= 1 /\ c.gemini_retry_delay = 5}

contexts == CHOOSE s \in arg : TRUE
results == CHOOSE s \in payload : TRUE

\* analyzer.py:816, 837, 893, 903  every result of analyze(context) carries
\* code = context.get('code', 'Unknown')
ResultFor(context, r) == [code |-> context.code, result |-> r]

\* analyzer.py:1387-1389  if i > 0: time.sleep(delay_between); i counts from 0
BatchDelayAlways(i) == <<Ev("sleep", "delay_between", "none")>>
BatchDelay(i) == IF i > 0 THEN <<Ev("sleep", "delay_between", "none")>> ELSE <<>>

BatchInit ==
    /\ cfg \in BatchConfigs
    /\ model = "none"
    /\ current_model_name = "none"
    /\ using_fallback = FALSE
    /\ use_openai = FALSE
    /\ openai_client = FALSE
    /\ pc = "new"
    /\ attempt = 0
    /\ openai_attempt = 0
    /\ last_error = NoError
    /\ tried_fallback = FALSE
    /\ escalated = FALSE
    /\ response_text = None
    /\ result = None
    /\ log = <<>>
    /\ ncalls = 0
    /\ tushare_api = FALSE
    /\ fn = "batch_analyze"
    /\ arg \in {Some(s) : s \in ContextLists}
    /\ at = "loop"
    /\ attempt_number = 0
    /\ trace = <<>>
    /\ payload = Some(<<>>)
    /\ ret = None

\* analyzer.py:1386-1391  the head of an iteration up to the call of analyze
BatchIterate ==
    /\ fn = "batch_analyze"
    /\ at = "loop"
    /\ pc = "idle"
    /\ Len(results) < Len(contexts)
    /\ trace' = trace \o BatchDelay(Len(results))
                      \o <<Ev("analyze", contexts[Len(results) + 1].code, "none")>>
    /\ at' = "call"
    /\ UNCHANGED <<clientvars, tushare_api, fn, arg, attempt_number, payload, ret>>

\* analyzer.py:1391  self.analyze(context) is entered
BatchAnalyze ==
    /\ fn = "batch_analyze"
    /\ at = "call"
    /\ ncalls = Len(results)
    /\ AnalyzeStart

\* analyzer.py:1391-1392  analyze returned; results.append(result)
BatchAppend ==
    /\ fn = "batch_analyze"
    /\ at = "call"
    /\ ncalls = Len(results) + 1
    /\ pc = "idle"
    /\ \E r \in result :
          /\ payload' = Some(Append(results, ResultFor(contexts[Len(results) + 1], r)))
          /\ trace' = Append(trace, Ev("result", contexts[Len(results) + 1].code,
                                       IF r.success THEN "success" ELSE "failure"))
    /\ at' = "loop"
    /\ UNCHANGED <<clientvars, tushare_api, fn, arg, attempt_number, ret>>

\* analyzer.py:1394  return results
BatchReturn ==
    /\ fn = "batch_analyze"
    /\ at = "loop"
    /\ pc = "idle"
    /\ Len(results) = Len(contexts)
    /\ ret' = Some(Returned0(results))
    /\ at' = "done"
    /\ UNCHANGED <<clientvars, tushare_api, fn, arg, attempt_number, trace, payload>>

BatchNext ==
    \/ \E built \in {"primary", "fallback", "none"}, ok \in BOOLEAN : Construct(built, ok)
    \/ BatchIterate
    \/ BatchAnalyze
    \/ \E o \in GeminiOutcomes, ok \in BOOLEAN : GeminiAttempt(o, ok)
    \/ \E ok \in BOOLEAN : GeminiExhausted(ok)
    \/ \E o \in OpenAIOutcomes : OpenAIAttempt(o)
    \/ OpenAIExhausted
    \/ Parse
    \/ BatchAppend
    \/ BatchReturn

BatchSpec == BatchInit /\ [][BatchNext]_vars

\* the waits, calls and returns of the first n items of a batch, in order
RECURSIVE ItemsTrace(_)
ItemsTrace(n) ==
    IF n = 0 THEN <<>>
    ELSE ItemsTrace(n - 1)
         \o (IF n > 1 THEN <<Ev("sleep", "delay_between", "none")>> ELSE <<>>)
         \o <<Ev("analyze", contexts[n].code, "none")>>

IsBatchSleep(x) == x.ev = "sleep"
NotResult(x) == x.ev # "result"

InitializedInCall == \E i \in 1..Len(log) : log[i].ev = "init_openai" /\ log[i].ok

\* C34: after construction with a valid Gemini key whose primary model could
\* not be initialized and a valid OpenAI key, the client is available and the
\* secondary provider is active (client handle set, use-secondary flag set).
C34_SecondaryAfterFailedPrimaryInit ==
    (pc = "idle" /\ ncalls = 0 /\ cfg.gemini_key_valid /\ model # "primary"
        /\ openai_key_valid)
        => (is_available /\ openai_client /\ use_openai)

\* the call began with the use-secondary flag set: it invokes no primary
\* backend and attempts no model substitution
BeganInSecondaryMode == use_openai /\ ~InitializedInCall
SecondaryOnly ==
    /\ pc # "gemini"
    /\ \A i \in 1..Len(log) : ~IsCall(log[i], "gemini") /\ log[i].ev # "switch"

\* C35: the use-secondary flag is never cleared by any step, and a call that
\* began with the flag set (the flag is set and the running call did not
\* itself initialize the secondary provider) goes to the secondary loop: it
\* never invokes the primary backend.
C35_EscalationSticky ==
    /\ [](BeganInSecondaryMode => SecondaryOnly)
    /\ [][use_openai => use_openai']_vars

\* a second call on a client whose first call escalated from the primary
\* provider by initializing the secondary one: it has called the secondary
\* provider
C35_Witness ==
    /\ ncalls = 2
    /\ cfg.gemini_key_valid
    /\ model # "none"
    /\ use_openai
    /\ ~InitializedInCall
    /\ \E i \in 1..Len(log) : IsCall(log[i], "openai")

\* the running call has made a model substitution
SubstitutedInCall == \E i \in 1..Len(log) : log[i].ev = "switch" /\ log[i].ok

\* C36: no step clears the using-fallback flag or brings the primary model
\* back once the flag is set, and a call that began with the flag set (the
\* flag is set and the running call made no substitution) does not attempt a
\* substitution, whatever its attempts fail with.
C36_FallbackFlagMonotonic ==
    /\ []((using_fallback /\ ~SubstitutedInCall) =>
             \A i \in 1..Len(log) : log[i].ev # "switch")
    /\ [][using_fallback =>
             (using_fallback' /\ model' = "fallback" /\ current_model_name' # "primary")]_vars

\* a call that began under the fallback model has failed a primary attempt
\* with a rate-limit error at or past the midpoint and made no substitution
C36_Witness ==
    /\ using_fallback
    /\ ncalls = 2
    /\ ~SubstitutedInCall
    /\ \E i \in 1..Len(log) :
          /\ IsCall(log[i], "gemini")
          /\ log[i].model = "fallback"
          /\ log[i].rate
          /\ log[i].k >= max_retries \div 2

\* C37: a secondary client handle is never held without the use-secondary
\* flag, and every invocation of the primary backend by the primary loop is
\* made on a model handle that is not null, also after a substitution that
\* failed or succeeded.
C37_PrimaryCallsHaveModel ==
    /\ openai_client => use_openai
    /\ \A i \in 1..Len(log) : IsCall(log[i], "gemini") => log[i].model # "none"
    /\ (pc = "gemini" /\ InRange(attempt)) => model # "none"

\* the primary backend was invoked after a substitution that failed, on a
\* client that can reach the secondary provider only by the lazy initialization
C37_Witness ==
    /\ LazyInitConfigured
    /\ openai_key_valid
    /\ ~openai_client
    /\ \E i, j \in 1..Len(log) :
          /\ i < j
          /\ log[i] = Switch(FALSE)
          /\ IsCall(log[j], "gemini")
          /\ log[j].model = "primary"

\* C38: whenever the backend returned a text, the result of analyze has
\* success = True.
C38_InterpreterTotal ==
    (pc = "idle" /\ response_text # None) => \A r \in result : r.success

====
